---- MODULE Spec2Model ----
(***************************************************************************)
(* Model of the load balancer: the token bucket (Bucket), the backend pool *)
(* (ServerPool.GetNextPeer), the dispatcher (NewLoadBalancerHandler), the  *)
(* proxy error handler and the health checker.                             *)
(*                                                                         *)
(* Time is an integer clock `now` counted in ticks; TicksPerSecond ticks   *)
(* make one second, so refillRate (tokens per second) credits              *)
(* floor(ticks * refillRate / TicksPerSecond) tokens.                      *)
(***************************************************************************)
EXTENDS Integers, Naturals, Sequences, FiniteSets, TLC

\* ---------------------------------------------------------------- bounds
MaxCapacity == 2
MaxRate == 2
MaxTime == 4
MaxCalls == 4
TicksPerSecond == 2
NumGoroutines == 2
MaxBackends == 2
NumProcs == 2
MaxPicks == 6
MaxTestBackends == 3
NumClients == 2
CleanupInterval == 1
MaxDefault == 1
MaxOps == 3
MaxAddrLen == 3

Nil == -1

Min(a, b) == IF a < b THEN a ELSE b

Goroutines == 1..NumGoroutines
Procs == 1..NumProcs
Clients == 1..NumClients
\* a bucket can be in the map or still be held by a caller after its removal
BucketIds == 1..(NumClients + NumProcs)
\* the reaper goroutine as a lock holder
Reaper == NumProcs + 1

VARIABLES
    \* ---- Bucket (one token bucket and the goroutines calling Allow on it)
    now,          \* the clock read by time.Now(), in ticks
    bucket,       \* the Bucket's fields
    mu,           \* holder of Bucket.mu, 0 when unlocked
    bpc,          \* position of each goroutine inside Bucket.Allow
    calls,        \* observation: results of the takes since the last refill that saw time pass
    idleTokens,   \* observation: tokens just before that refill
    idleDur,      \* observation: the duration that refill measured (0: none since creation)
    burstTokens,  \* observation: tokens just after that refill
    \* ---- ServerPool, dispatcher, error handler, health checker
    n,            \* len(s.backends)
    alive,        \* Backend.Alive of each backend
    up,           \* environment: whether the upstream accepts connections
    current,      \* ServerPool.current
    pc,           \* position of each request handler
    currentIdx,   \* GetNextPeer local
    i,            \* GetNextPeer loop index
    attempts,     \* dispatcher local
    peer,         \* dispatcher local / GetNextPeer result (index or Nil)
    retry,        \* value attached to the request context under key Retry
    status,       \* HTTP status written to the client, 0 while none
    tries,        \* observation: GetNextPeer calls made for the request
    handoffs,     \* observation: ReverseProxy.ServeHTTP calls made for the request
    everAlive,    \* observation: some backend was flagged alive during the request
    hc,           \* position of ServerPool.HealthCheck
    probe,        \* position of each probe goroutine of the running cycle
    picks,        \* observation: results of sequential GetNextPeer calls
    callCursor,   \* observation: cursor when the sequential call was made
    resp,         \* what was written to the client besides the status: headers and body
    served,       \* observation: times the load-balancer handler was invoked for the request
    req,          \* the request each handler is serving: path, method, body
    remote,       \* r.RemoteAddr of that request, a sequence of characters
    ip,           \* the filter's local ip: the client id derived from r.RemoteAddr
    \* ---- Limiter, BucketStore, LimitProvider, reaper
    enabled,      \* cfg.RateLimiter.Enabled: main built a Limiter
    defaultCapacity,   \* BucketStore.defaultCapacity
    defaultRefillRate, \* BucketStore.defaultRefillRate
    hasProvider,  \* BucketStore.limitProvider != nil
    limits,       \* rows of the limit store, per client
    ops,          \* observation: the SetLimit and DeleteLimit calls made on the limit store
    opErr,        \* error returned by the last SetLimit or DeleteLimit, FALSE for nil
    got,          \* observation: the last direct GetLimit call and what it returned
    buckets,      \* BucketStore.buckets: client -> bucket id, 0 when absent
    heap,         \* the Bucket objects by id
    smu,          \* holder of BucketStore.mu, 0 when unlocked
    bmu,          \* holder of each Bucket.mu, 0 when unlocked
    client,       \* clientID of the Limiter.Allow call of each handler, 0 when none
    bk,           \* the *Bucket returned by GetOrCreateBucket, 0 for nil
    ans,          \* what LimitProvider.GetLimit returned to the caller
    allowed,      \* result of Limiter.Allow
    fresh,        \* observation: buckets on which no Allow has completed yet
    cold,         \* observation: the client had no bucket when the call began
    rpc,          \* position of Limiter.runCleanup
    rTodo,        \* clients the sweep has still to visit
    rCur,         \* client the sweep is visiting
    rLast,        \* lastAccessTime read by IsInactive
    stopChan,     \* TRUE once Limiter.stopChan is closed
    spc,          \* position of the caller of Limiter.Stop
    shutdown      \* TRUE once main received the quit signal

bucketVars == <<now, bucket, mu, bpc, calls, idleTokens, idleDur, burstTokens>>
poolVars == <<n, alive, up, current, pc, currentIdx, i, attempts, peer, retry,
              status, tries, handoffs, everAlive, hc, probe, picks, callCursor, resp, served>>
poolRest == <<n, alive, up, current, currentIdx, i, attempts, peer, retry,
              tries, handoffs, everAlive, hc, probe, picks, callCursor>>
reqOut == <<status, resp, served>>
cfgVars == <<enabled, defaultCapacity, defaultRefillRate, hasProvider, limits, ops, opErr, got>>
storeVars == <<buckets, heap, smu, bmu, fresh>>
callVars == <<client, bk, ans, allowed, cold>>
reaperVars == <<rpc, rTodo, rCur, rLast, stopChan, spc>>
limVars == <<cfgVars, storeVars, callVars, reaperVars, shutdown>>
reqVars == <<req, remote, ip>>
vars == <<bucketVars, poolVars, limVars, reqVars>>

\* ================================================================ Bucket

\* a bucket that starts empty
NewBucketEmpty(capacity, rate, t) ==
    [capacity |-> capacity, tokens |-> 0, refillRate |-> rate,
     lastRefill |-> t, lastAccess |-> t]

\* the nil *Bucket
NilBucket == [capacity |-> 0, tokens |-> 0, refillRate |-> 0,
              lastRefill |-> 0, lastAccess |-> 0]

\* NewBucket: nil for non-positive parameters, otherwise a full bucket.
NewBucket(capacity, rate, t) ==
    IF capacity <= 0 \/ rate <= 0
    THEN NilBucket
    ELSE [capacity |-> capacity, tokens |-> capacity, refillRate |-> rate,
          lastRefill |-> t, lastAccess |-> t]

\* the conversion rounding up instead of truncating
TokensToAddCeil(duration, rate) ==
    (duration * rate + TicksPerSecond - 1) \div TicksPerSecond

\* int64(duration.Seconds() * b.refillRate)
TokensToAdd(duration, rate) == (duration * rate) \div TicksPerSecond

\* refill without the clamp to capacity
refillNoClamp(b, t) ==
    IF t - b.lastRefill <= 0
    THEN b
    ELSE [b EXCEPT !.tokens = b.tokens + TokensToAdd(t - b.lastRefill, b.refillRate),
                   !.lastRefill = t]

\* a refill that also stamps lastAccess
refillStampsAccess(b, t) ==
    IF t - b.lastRefill <= 0
    THEN b
    ELSE [b EXCEPT !.tokens = Min(b.capacity,
                                  b.tokens + TokensToAdd(t - b.lastRefill, b.refillRate)),
                   !.lastRefill = t,
                   !.lastAccess = t]

\* Bucket.refill
refill(b, t) ==
    IF t - b.lastRefill <= 0
    THEN b
    ELSE [b EXCEPT !.tokens = Min(b.capacity,
                                  b.tokens + TokensToAdd(t - b.lastRefill, b.refillRate)),
                   !.lastRefill = t]

\* Allow without the mutex
CanLockNoMutex(m) == TRUE

\* b.mu.Lock() succeeds only while nobody holds the mutex
CanLock(m) == m = 0

\* if b.tokens >= 1
HasToken(b) == b.tokens >= 1

BucketInit ==
    /\ now = 0
    /\ \E c \in 0..MaxCapacity, r \in 0..MaxRate :
          /\ NewBucket(c, r, 0) # NilBucket
          /\ bucket = NewBucket(c, r, 0)
    /\ mu = 0
    /\ bpc = [g \in Goroutines |-> "idle"]
    /\ calls = <<>>
    /\ idleTokens = bucket.capacity
    /\ idleDur = 0
    /\ burstTokens = bucket.capacity

\* Allow: b.mu.Lock()
AllowLock(g) ==
    /\ bpc[g] = "idle"
    /\ Len(calls) < MaxCalls
    /\ CanLock(mu)
    /\ mu' = g
    /\ bpc' = [bpc EXCEPT ![g] = "refill"]
    /\ UNCHANGED <<now, bucket, calls, idleTokens, idleDur, burstTokens>>

\* Allow: b.refill()
AllowRefill(g) ==
    /\ bpc[g] = "refill"
    /\ bucket' = refill(bucket, now)
    /\ bpc' = [bpc EXCEPT ![g] = "check"]
    /\ IF now - bucket.lastRefill > 0
       THEN /\ calls' = <<>>
            /\ idleTokens' = bucket.tokens
            /\ idleDur' = now - bucket.lastRefill
            /\ burstTokens' = bucket'.tokens
       ELSE UNCHANGED <<calls, idleTokens, idleDur, burstTokens>>
    /\ UNCHANGED <<now, mu>>

\* Allow: if b.tokens >= 1 { ... } else return false
AllowCheck(g) ==
    /\ bpc[g] = "check"
    /\ calls' = Append(calls, [g |-> g, ok |-> HasToken(bucket)])
    /\ bpc' = [bpc EXCEPT ![g] = IF HasToken(bucket) THEN "take" ELSE "unlock"]
    /\ UNCHANGED <<now, bucket, mu, idleTokens, idleDur, burstTokens>>

\* Allow: b.tokens--; b.lastAccess = time.Now(); return true
AllowTake(g) ==
    /\ bpc[g] = "take"
    /\ bucket' = [bucket EXCEPT !.tokens = bucket.tokens - 1, !.lastAccess = now]
    /\ bpc' = [bpc EXCEPT ![g] = "unlock"]
    /\ UNCHANGED <<now, mu, calls, idleTokens, idleDur, burstTokens>>

\* Allow: deferred b.mu.Unlock()
AllowUnlock(g) ==
    /\ bpc[g] = "unlock"
    /\ mu' = 0
    /\ bpc' = [bpc EXCEPT ![g] = "idle"]
    /\ UNCHANGED <<now, bucket, calls, idleTokens, idleDur, burstTokens>>

\* passage of time
Tick ==
    /\ now < MaxTime
    /\ now' = now + 1
    /\ UNCHANGED <<bucket, mu, bpc, calls, idleTokens, idleDur, burstTokens>>


\* ============================================================ ServerPool

Backends == 0..(n - 1)

\* Backend.IsAlive: atomic read of the flag
IsAlive(b) == alive[b]

\* a flag that every write raises
SetAliveTrue(b, v) == [alive EXCEPT ![b] = TRUE]

\* Backend.SetAlive: atomic write of the flag
SetAlive(b, v) == [alive EXCEPT ![b] = v]

\* nextIdx := (currentIdx + 1 + i) % numBackends
NextIdx(p) == (currentIdx[p] + 1 + i[p]) % n

JsonType == "application/json; charset=utf-8"
TextType == "text/plain; charset=utf-8"

\* nothing written yet
NoResponse == [ctype |-> "", json |-> FALSE, code |-> Nil, message |-> ""]

\* what the upstream sent, streamed back unchanged
UpstreamResponse == [ctype |-> "upstream", json |-> FALSE, code |-> Nil, message |-> ""]

\* httputil.RespondWithError: Content-Type JSON, body {"code": code, "message": message}
RespondWithError(code, message) ==
    [ctype |-> JsonType, json |-> TRUE, code |-> code, message |-> message]

\* net/http.Error: Content-Type text/plain, the message as the body
HttpError(message, code) ==
    [ctype |-> TextType, json |-> FALSE, code |-> Nil, message |-> message]

\* no request is being served
NoRequest == [path |-> <<>>, method |-> "", body |-> [ok |-> FALSE, client_id |-> "", capacity |-> 0, rate |-> 0]]

IdleLocals ==
    /\ pc = [p \in Procs |-> "idle"]
    /\ currentIdx = [p \in Procs |-> 0]
    /\ i = [p \in Procs |-> 0]
    /\ attempts = [p \in Procs |-> 0]
    /\ peer = [p \in Procs |-> Nil]
    /\ retry = [p \in Procs |-> 0]
    /\ status = [p \in Procs |-> 0]
    /\ tries = [p \in Procs |-> 0]
    /\ handoffs = [p \in Procs |-> 0]
    /\ everAlive = [p \in Procs |-> FALSE]
    /\ picks = <<>>
    /\ callCursor = 0
    /\ resp = [p \in Procs |-> NoResponse]
    /\ served = [p \in Procs |-> 0]
    /\ req = [p \in Procs |-> NoRequest]
    /\ remote = [p \in Procs |-> <<>>]
    /\ ip = [p \in Procs |-> <<>>]

\* NewServerPool: every backend starts with Alive = false, cursor 0;
\* main starts HealthCheck right after construction.
PoolInit ==
    /\ n \in 0..MaxBackends
    /\ alive = [b \in Backends |-> FALSE]
    /\ up \in [Backends -> BOOLEAN]
    /\ current = 0
    /\ hc = "start"
    /\ probe = [b \in Backends |-> "none"]
    /\ IdleLocals

\* GetNextPeer: numBackends == 0 returns nil, otherwise currentIdx := s.current.Load()
GnpLoad(p) ==
    /\ pc[p] = "gnp_load"
    /\ IF n = 0
       THEN /\ peer' = [peer EXCEPT ![p] = Nil]
            /\ pc' = [pc EXCEPT ![p] = "gnp_ret"]
            /\ UNCHANGED <<currentIdx, i>>
       ELSE /\ currentIdx' = [currentIdx EXCEPT ![p] = current]
            /\ i' = [i EXCEPT ![p] = 0]
            /\ pc' = [pc EXCEPT ![p] = "gnp_scan"]
            /\ UNCHANGED peer
    /\ UNCHANGED <<n, alive, up, current, attempts, retry, status, tries,
                   handoffs, everAlive, hc, probe, picks, callCursor, resp, served>>

\* the scan taking the first index without looking at its flag
ScanIgnoresAlive(p) == TRUE

\* the test of one loop iteration: s.backends[nextIdx].IsAlive()
ScanSeesAlive(p) == IsAlive(NextIdx(p))

\* GetNextPeer: one iteration of the scan loop; falls out of the loop with nil
GnpScan(p) ==
    /\ pc[p] = "gnp_scan"
    /\ i[p] < n
    /\ IF ScanSeesAlive(p)
       THEN /\ pc' = [pc EXCEPT ![p] = "gnp_store"]
            /\ UNCHANGED <<i, peer>>
       ELSE /\ i' = [i EXCEPT ![p] = i[p] + 1]
            /\ IF i[p] + 1 < n
               THEN UNCHANGED <<pc, peer>>
               ELSE /\ peer' = [peer EXCEPT ![p] = Nil]
                    /\ pc' = [pc EXCEPT ![p] = "gnp_ret"]
    /\ UNCHANGED <<n, alive, up, current, currentIdx, attempts, retry, status,
                   tries, handoffs, everAlive, hc, probe, picks, callCursor, resp, served>>

\* the cursor advancing by one whatever index was resolved
StoredCursorPlusOne(p) == (currentIdx[p] + 1) % n

\* the value of s.current.Store(nextIdx)
StoredCursor(p) == NextIdx(p)

\* GetNextPeer: s.current.Store(nextIdx); return s.backends[nextIdx]
GnpStore(p) ==
    /\ pc[p] = "gnp_store"
    /\ current' = StoredCursor(p)
    /\ peer' = [peer EXCEPT ![p] = NextIdx(p)]
    /\ pc' = [pc EXCEPT ![p] = "gnp_ret"]
    /\ UNCHANGED <<n, alive, up, currentIdx, i, attempts, retry, status, tries,
                   handoffs, everAlive, hc, probe, picks, callCursor, resp, served>>

\* ============================================================ Dispatcher

\* the load-balancer handler is entered by a request at position `from`.
\* The handler returned for a pool without backends: 500;
\* otherwise attempts := 0; maxAttempts := len(pool.GetBackends()); first GetNextPeer
Dispatch(p, from) ==
    /\ pc[p] = from
    /\ served' = [served EXCEPT ![p] = served[p] + 1]
    /\ IF n = 0
       THEN /\ status' = [status EXCEPT ![p] = 500]
            /\ resp' = [resp EXCEPT ![p] =
                           RespondWithError(500, "Load Balancer Configuration Error")]
            /\ pc' = [pc EXCEPT ![p] = "done"]
            /\ UNCHANGED <<tries, everAlive>>
       ELSE /\ status' = [status EXCEPT ![p] = 0]
            /\ pc' = [pc EXCEPT ![p] = "gnp_load"]
            /\ tries' = [tries EXCEPT ![p] = 1]
            /\ everAlive' = [everAlive EXCEPT ![p] = \E b \in Backends : alive[b]]
            /\ UNCHANGED resp
    /\ UNCHANGED <<n, alive, up, current, currentIdx, i, attempts, peer, retry,
                   handoffs, hc, probe, picks, callCursor>>

\* router.Handle("/", loadBalancerHandler) when no limiter is configured
StartRequest(p) == Dispatch(p, "idle")

\* one try more than there are backends
MaxAttemptsPlusOne == n + 1

\* maxAttempts := len(pool.GetBackends())
MaxAttempts == n

\* peer != nil: break.  Otherwise attempts++, sleep, and the loop condition
\* attempts < maxAttempts decides between another GetNextPeer and leaving the loop.
AfterTry(p) ==
    /\ pc[p] = "gnp_ret"
    /\ IF peer[p] # Nil
       THEN /\ pc' = [pc EXCEPT ![p] = "after"]
            /\ UNCHANGED <<attempts, tries>>
       ELSE /\ attempts' = [attempts EXCEPT ![p] = attempts[p] + 1]
            /\ IF attempts[p] + 1 < MaxAttempts
               THEN /\ pc' = [pc EXCEPT ![p] = "gnp_load"]
                    /\ tries' = [tries EXCEPT ![p] = tries[p] + 1]
               ELSE /\ pc' = [pc EXCEPT ![p] = "after"]
                    /\ UNCHANGED tries
    /\ UNCHANGED <<n, alive, up, current, currentIdx, i, peer, retry, status,
                   handoffs, everAlive, hc, probe, picks, callCursor, resp, served>>

\* if peer == nil: 503.  Otherwise ctx := WithValue(Retry, attempts) and
\* peer.ReverseProxy.ServeHTTP
Handoff(p) ==
    /\ pc[p] = "after"
    /\ IF peer[p] = Nil
       THEN /\ status' = [status EXCEPT ![p] = 503]
            /\ resp' = [resp EXCEPT ![p] =
                           RespondWithError(503,
                               "Service Unavailable: No backend servers available")]
            /\ pc' = [pc EXCEPT ![p] = "done"]
            /\ UNCHANGED <<retry, handoffs>>
       ELSE /\ retry' = [retry EXCEPT ![p] = attempts[p]]
            /\ handoffs' = [handoffs EXCEPT ![p] = handoffs[p] + 1]
            /\ pc' = [pc EXCEPT ![p] = "proxy"]
            /\ UNCHANGED <<status, resp>>
    /\ UNCHANGED <<n, alive, up, current, currentIdx, i, attempts, peer, tries,
                   everAlive, hc, probe, picks, callCursor, served>>

\* the reverse proxy reaches the upstream (response streamed back) or fails
\* to connect (its ErrorHandler runs)
Proxy(p) ==
    /\ pc[p] = "proxy"
    /\ IF up[peer[p]]
       THEN /\ status' = [status EXCEPT ![p] = 200]
            /\ resp' = [resp EXCEPT ![p] = UpstreamResponse]
            /\ pc' = [pc EXCEPT ![p] = "done"]
       ELSE /\ pc' = [pc EXCEPT ![p] = "errh"]
            /\ UNCHANGED <<status, resp>>
    /\ UNCHANGED <<n, alive, up, current, currentIdx, i, attempts, peer, retry,
                   tries, handoffs, everAlive, hc, probe, picks, callCursor, served>>

\* the handler demoting whatever the retry count
DemoteAlways(r) == TRUE

\* the handler demoting on retries only
DemoteOnRetry(r) == r >= 1

\* if retries < 1
Demote(r) == r < 1

\* the handler sending the request back to peer selection
AfterErrorRetry == "gnp_load"

\* the error handler ends the request: nothing follows http.Error
AfterError == "done"

\* proxy.ErrorHandler of the chosen backend
ErrorHandler(p) ==
    /\ pc[p] = "errh"
    /\ alive' = IF Demote(retry[p]) THEN SetAlive(peer[p], FALSE) ELSE alive
    /\ status' = [status EXCEPT ![p] = 502]
    /\ resp' = [resp EXCEPT ![p] =
                   HttpError("Bad Gateway: Error connecting to backend", 502)]
    /\ pc' = [pc EXCEPT ![p] = AfterError]
    /\ UNCHANGED <<n, up, current, currentIdx, i, attempts, peer, retry, tries,
                   handoffs, everAlive, hc, probe, picks, callCursor, served>>

\* the handler returns; the next request of this connection starts from scratch
Finish(p) ==
    /\ pc[p] = "done"
    /\ pc' = [pc EXCEPT ![p] = "idle"]
    /\ currentIdx' = [currentIdx EXCEPT ![p] = 0]
    /\ i' = [i EXCEPT ![p] = 0]
    /\ attempts' = [attempts EXCEPT ![p] = 0]
    /\ peer' = [peer EXCEPT ![p] = Nil]
    /\ retry' = [retry EXCEPT ![p] = 0]
    /\ status' = [status EXCEPT ![p] = 0]
    /\ tries' = [tries EXCEPT ![p] = 0]
    /\ handoffs' = [handoffs EXCEPT ![p] = 0]
    /\ everAlive' = [everAlive EXCEPT ![p] = FALSE]
    /\ resp' = [resp EXCEPT ![p] = NoResponse]
    /\ served' = [served EXCEPT ![p] = 0]
    /\ UNCHANGED <<n, alive, up, current, hc, probe, picks, callCursor>>

\* ========================================================== HealthChecker

\* HealthCheck: the initial cycle, or <-ticker.C; runHealthCheckCycle spawns
\* one goroutine per backend
HcStartCycle ==
    /\ hc \in {"start", "wait"}
    /\ hc' = "join"
    /\ probe' = [b \in Backends |-> "dial"]
    /\ UNCHANGED <<n, alive, up, current, pc, currentIdx, i, attempts, peer,
                   retry, status, tries, handoffs, everAlive, picks, callCursor, resp, served>>

\* isBackendAlive: net.DialTimeout succeeds iff the upstream accepts
ProbeDial(b) ==
    /\ probe[b] = "dial"
    /\ probe' = [probe EXCEPT ![b] = IF up[b] THEN "set_up" ELSE "set_down"]
    /\ UNCHANGED <<n, alive, up, current, pc, currentIdx, i, attempts, peer,
                   retry, status, tries, handoffs, everAlive, hc, picks, callCursor, resp, served>>

\* backend.SetAlive(alive); wg.Done()
ProbeSet(b) ==
    /\ probe[b] \in {"set_up", "set_down"}
    /\ alive' = SetAlive(b, probe[b] = "set_up")
    /\ probe' = [probe EXCEPT ![b] = IF probe[b] = "set_up" THEN "done_up" ELSE "done_down"]
    /\ everAlive' = [p \in Procs |->
                        everAlive[p] \/ (pc[p] # "idle" /\ probe[b] = "set_up")]
    /\ UNCHANGED <<n, up, current, pc, currentIdx, i, attempts, peer, retry,
                   status, tries, handoffs, hc, picks, callCursor, resp, served>>

\* a cycle that returns without waiting for its probes
WgWaitDoneEarly == TRUE

\* runHealthCheckCycle: wg.Wait() returns once every probe goroutine called wg.Done()
WgWaitDone == \A b \in Backends : probe[b] \in {"done_up", "done_down"}

\* wg.Wait() returns; HealthCheck goes back to the ticker
HcJoin ==
    /\ hc = "join"
    /\ WgWaitDone
    /\ hc' = "wait"
    /\ probe' = [b \in Backends |-> "none"]
    /\ UNCHANGED <<n, alive, up, current, pc, currentIdx, i, attempts, peer,
                   retry, status, tries, handoffs, everAlive, picks, callCursor, resp, served>>

\* environment: an upstream goes down or comes back
EnvFlip(b) ==
    /\ up' = [up EXCEPT ![b] = ~up[b]]
    /\ UNCHANGED <<n, alive, current, pc, currentIdx, i, attempts, peer, retry,
                   status, tries, handoffs, everAlive, hc, probe, picks, callCursor, resp, served>>

\* =============================================================== Limiter

\* LimitProvider.GetLimit reports (0, 0, false) when there is no row or the query fails
NoLimit == [found |-> FALSE, capacity |-> 0, rate |-> 0]

\* the rows a limit store can hold: SetLimit stores what it is given
LimitRows == {[found |-> TRUE, capacity |-> c, rate |-> r] :
                 c \in {0, MaxCapacity}, r \in {0, MaxRate}}

\* a provider that never finds a row
GetLimitNone(c) == NoLimit

\* SQLiteLimitStore.GetLimit: the row of the client, (0, 0, false) without one
GetLimit(c) == limits[c]

\* no direct GetLimit call made yet
NoCall == [id |-> 0, row |-> NoLimit, at |-> 0]

\* INSERT without ON CONFLICT: an existing row is kept
UpsertKeepsOld(lim, c, capacity, rate) ==
    IF lim[c].found THEN lim
    ELSE [lim EXCEPT ![c] = [found |-> TRUE, capacity |-> capacity, rate |-> rate]]

\* setLimitSQL: INSERT ... ON CONFLICT(client_id) DO UPDATE
Upsert(lim, c, capacity, rate) ==
    [lim EXCEPT ![c] = [found |-> TRUE, capacity |-> capacity, rate |-> rate]]

\* deleteLimitSQL: DELETE ... WHERE client_id = ?
DeleteRow(lim, c) == [lim EXCEPT ![c] = NoLimit]

\* SQLiteLimitStore.SetLimit: the statement is executed, nil is returned;
\* rec tells whether the call is kept in the observed history
SetLimit(c, capacity, rate, rec) ==
    /\ rec => Len(ops) < MaxOps
    /\ limits' = Upsert(limits, c, capacity, rate)
    /\ opErr' = FALSE
    /\ ops' = IF rec
              THEN Append(ops, [op |-> "set", id |-> c, capacity |-> capacity, rate |-> rate])
              ELSE ops
    /\ UNCHANGED <<enabled, defaultCapacity, defaultRefillRate, hasProvider, got,
                   storeVars, callVars, reaperVars, shutdown>>

\* SQLiteLimitStore.DeleteLimit: the statement is executed; no row affected is
\* only logged, nil is returned
DeleteLimit(c, rec) ==
    /\ rec => Len(ops) < MaxOps
    /\ limits' = DeleteRow(limits, c)
    /\ opErr' = FALSE
    /\ ops' = IF rec
              THEN Append(ops, [op |-> "delete", id |-> c, capacity |-> 0, rate |-> 0])
              ELSE ops
    /\ UNCHANGED <<enabled, defaultCapacity, defaultRefillRate, hasProvider, got,
                   storeVars, callVars, reaperVars, shutdown>>

\* a direct GetLimit(clientID) call, as the admin handler's
GetLimitCall(c) ==
    /\ got' = [id |-> c, row |-> GetLimit(c), at |-> Len(ops)]
    /\ UNCHANGED <<enabled, defaultCapacity, defaultRefillRate, hasProvider, limits,
                   ops, opErr, storeVars, callVars, reaperVars, shutdown>>

\* the custom values are used when either of them is positive
UseCustomEither(a) == a.found /\ (a.capacity > 0 \/ a.rate > 0)

\* GetOrCreateBucket: found && customCapacity > 0 && customRate > 0
UseCustom(a) == a.found /\ a.capacity > 0 /\ a.rate > 0

\* GetOrCreateBucket: the capacity the new bucket is created with
ChosenCapacity(a) == IF UseCustom(a) THEN a.capacity ELSE defaultCapacity

\* GetOrCreateBucket: the rate the new bucket is created with
ChosenRate(a) == IF UseCustom(a) THEN a.rate ELSE defaultRefillRate

\* bucket objects some task can still reach: through the map or through a local
Referenced(bs, bks) == ({bs[c] : c \in Clients} \cup {bks[p] : p \in Procs}) \ {0}

\* the garbage collector: unreachable Bucket objects are gone
Collect(h, bs, bks) ==
    [id \in BucketIds |-> IF id \in Referenced(bs, bks) THEN h[id] ELSE NilBucket]

\* the address of a newly allocated Bucket
NewId == CHOOSE id \in BucketIds \ Referenced(buckets, bk) :
             \A id2 \in BucketIds \ Referenced(buckets, bk) : id <= id2

\* the second lookup misses whatever the map holds
RecheckMiss(c) == 0

\* GetOrCreateBucket: bucket, exists = s.buckets[clientID] under the write lock
Recheck(c) == buckets[c]

\* NewBucketStore with valid defaults and an optional provider, NewLimiter:
\* empty map, cleanup goroutine started
LimiterInit ==
    /\ enabled = TRUE
    /\ defaultCapacity \in 1..MaxDefault
    /\ defaultRefillRate \in 1..MaxDefault
    /\ hasProvider \in BOOLEAN
    /\ limits \in [Clients -> LimitRows \cup {NoLimit}]
    /\ ~hasProvider => limits = [c \in Clients |-> NoLimit]
    /\ ops = <<>>
    /\ opErr = FALSE
    /\ got = NoCall
    /\ buckets = [c \in Clients |-> 0]
    /\ heap = [id \in BucketIds |-> NilBucket]
    /\ smu = 0
    /\ bmu = [id \in BucketIds |-> 0]
    /\ client = [p \in Procs |-> 0]
    /\ bk = [p \in Procs |-> 0]
    /\ ans = [p \in Procs |-> NoLimit]
    /\ allowed = [p \in Procs |-> FALSE]
    /\ fresh = {}
    /\ cold = [p \in Procs |-> FALSE]
    /\ rpc = "wait"
    /\ rTodo = {}
    /\ rCur = 0
    /\ rLast = 0
    /\ stopChan = FALSE
    /\ spc = "none"
    /\ shutdown = FALSE

\* Limiter.Allow(clientID) is called: GetOrCreateBucket begins
AllowCall(p, c, from) ==
    /\ pc[p] = from
    /\ pc' = [pc EXCEPT ![p] = "goc_rlock"]
    /\ client' = [client EXCEPT ![p] = c]
    /\ cold' = [cold EXCEPT ![p] = buckets[c] = 0]
    /\ UNCHANGED <<reqOut, cfgVars, storeVars, bk, ans, allowed, reaperVars, shutdown>>

\* GetOrCreateBucket: s.mu.RLock(); lookup; s.mu.RUnlock(); return on a hit
GocRead(p) ==
    /\ pc[p] = "goc_rlock"
    /\ CanLock(smu)
    /\ IF buckets[client[p]] # 0
       THEN /\ bk' = [bk EXCEPT ![p] = buckets[client[p]]]
            /\ pc' = [pc EXCEPT ![p] = "la_got"]
       ELSE /\ pc' = [pc EXCEPT ![p] = "goc_wlock"]
            /\ UNCHANGED bk
    /\ UNCHANGED <<reqOut, cfgVars, storeVars, client, ans, allowed, cold, reaperVars, shutdown>>

\* GetOrCreateBucket: s.mu.Lock(); second lookup; on a hit the deferred
\* Unlock runs and the bucket is returned
GocLock(p) ==
    /\ pc[p] = "goc_wlock"
    /\ CanLock(smu)
    /\ IF Recheck(client[p]) # 0
       THEN /\ bk' = [bk EXCEPT ![p] = Recheck(client[p])]
            /\ pc' = [pc EXCEPT ![p] = "la_got"]
            /\ UNCHANGED smu
       ELSE /\ smu' = p
            /\ pc' = [pc EXCEPT ![p] = IF hasProvider THEN "goc_getlimit" ELSE "goc_create"]
            /\ UNCHANGED bk
    /\ UNCHANGED <<reqOut, cfgVars, buckets, heap, bmu, fresh, client, ans, allowed, cold,
                   reaperVars, shutdown>>

\* GetOrCreateBucket: s.limitProvider.GetLimit(clientID) returns, the store lock held
GocGetLimit(p) ==
    /\ pc[p] = "goc_getlimit"
    /\ ans' = [ans EXCEPT ![p] = GetLimit(client[p])]
    /\ pc' = [pc EXCEPT ![p] = "goc_create"]
    /\ UNCHANGED <<reqOut, cfgVars, storeVars, client, bk, allowed, cold, reaperVars, shutdown>>

\* GetOrCreateBucket: NewBucket(capacity, rate); nil is returned as nil, otherwise
\* s.buckets[clientID] = newBucket; the deferred Unlock runs
GocCreate(p) ==
    /\ pc[p] = "goc_create"
    /\ LET nb == NewBucket(ChosenCapacity(ans[p]), ChosenRate(ans[p]), now)
       IN IF nb = NilBucket
          THEN UNCHANGED <<buckets, heap, fresh, bk>>
          ELSE /\ buckets' = [buckets EXCEPT ![client[p]] = NewId]
               /\ bk' = [bk EXCEPT ![p] = NewId]
               /\ fresh' = fresh \cup {NewId}
               /\ heap' = Collect([heap EXCEPT ![NewId] = nb], buckets', bk')
    /\ smu' = 0
    /\ ans' = [ans EXCEPT ![p] = NoLimit]
    /\ pc' = [pc EXCEPT ![p] = "la_got"]
    /\ UNCHANGED <<reqOut, cfgVars, bmu, client, allowed, cold, reaperVars, shutdown>>

\* Limiter.Allow: bucket == nil returns false, otherwise bucket.Allow() begins
\* with b.mu.Lock()
LaGot(p) ==
    /\ pc[p] = "la_got"
    /\ IF bk[p] = 0
       THEN /\ allowed' = [allowed EXCEPT ![p] = FALSE]
            /\ pc' = [pc EXCEPT ![p] = "la_ret"]
            /\ UNCHANGED bmu
       ELSE /\ CanLock(bmu[bk[p]])
            /\ bmu' = [bmu EXCEPT ![bk[p]] = p]
            /\ pc' = [pc EXCEPT ![p] = "ba_body"]
            /\ UNCHANGED allowed
    /\ UNCHANGED <<reqOut, cfgVars, buckets, heap, smu, fresh, client, bk, ans, cold,
                   reaperVars, shutdown>>

\* Bucket.Allow under the mutex: refill, then take a token if there is one
BucketAllow(b, t) ==
    LET r == refill(b, t)
    IN IF HasToken(r)
       THEN [ok |-> TRUE, b |-> [r EXCEPT !.tokens = r.tokens - 1, !.lastAccess = t]]
       ELSE [ok |-> FALSE, b |-> r]

\* Bucket.Allow: the critical section and the deferred b.mu.Unlock()
BaBody(p) ==
    /\ pc[p] = "ba_body"
    /\ heap' = [heap EXCEPT ![bk[p]] = BucketAllow(heap[bk[p]], now).b]
    /\ allowed' = [allowed EXCEPT ![p] = BucketAllow(heap[bk[p]], now).ok]
    /\ bmu' = [bmu EXCEPT ![bk[p]] = 0]
    /\ fresh' = fresh \ {bk[p]}
    /\ pc' = [pc EXCEPT ![p] = "la_ret"]
    /\ UNCHANGED <<reqOut, cfgVars, buckets, smu, client, bk, ans, cold, reaperVars, shutdown>>

\* the caller has the result of Limiter.Allow and drops its locals
AllowReturn(p, to) ==
    /\ pc[p] = "la_ret"
    /\ pc' = [pc EXCEPT ![p] = to]
    /\ client' = [client EXCEPT ![p] = 0]
    /\ bk' = [bk EXCEPT ![p] = 0]
    /\ allowed' = [allowed EXCEPT ![p] = FALSE]
    /\ cold' = [cold EXCEPT ![p] = FALSE]
    /\ heap' = Collect(heap, buckets, bk')
    /\ fresh' = fresh \cap Referenced(buckets, bk')
    /\ UNCHANGED <<cfgVars, buckets, smu, bmu, ans, reaperVars, shutdown>>

\* a direct caller of Limiter.Allow, as the package's tests
LimCall(p, c) == AllowCall(p, c, "idle")

LimReturn(p) == AllowReturn(p, "idle") /\ UNCHANGED reqOut

\* ---- the rate-limit filter in front of the dispatcher

\* RateLimit: the client id is taken from r.RemoteAddr and limiter.Allow(ip) is called
RateLimitEnter(p, c) == AllowCall(p, c, "idle")

\* a filter that goes on to the next handler after writing 429
AfterRefuseFallThrough == "rl_pass"

\* RateLimit: return after RespondWithError
AfterRefuse == "done"

\* RateLimit: !limiter.Allow(ip): RespondWithError(w, 429, ...); return
RateLimitRefuse(p) ==
    /\ ~allowed[p]
    /\ AllowReturn(p, AfterRefuse)
    /\ status' = [status EXCEPT ![p] = 429]
    /\ resp' = [resp EXCEPT ![p] = RespondWithError(429, "Rate limit exceeded")]
    /\ UNCHANGED served

\* RateLimit: limiter.Allow(ip) returned true
RateLimitPass(p) ==
    /\ allowed[p]
    /\ AllowReturn(p, "rl_pass")
    /\ UNCHANGED reqOut

\* RateLimit: next.ServeHTTP(w, r)
NextHandler(p) == Dispatch(p, "rl_pass")

\* ---- the client id the filter derives from r.RemoteAddr

\* the characters remote addresses are written with
Chars == {"1", ":", "[", "]"}

\* longer addresses: host and port, bracketed hosts with and without a port
LongAddrs ==
    {<<"1", ":", "1", "1">>,
     <<"[", "1", "]", ":">>,
     <<"[", "1", "]", ":", "1">>,
     <<"[", ":", "1", "]">>,
     <<"[", ":", "1", "]", ":">>,
     <<"[", ":", "1", "]", ":", "1">>,
     <<"[", ":", "1", "]", ":", "1", "1">>,
     <<"[", "[", "1", "]", "]", ":", "1">>}

\* every string of at most MaxAddrLen characters, and the longer addresses
Addrs == UNION {[1..k -> Chars] : k \in 0..MaxAddrLen} \cup LongAddrs

\* the index of the first occurrence instead of the last
FirstIndex(s, ch) ==
    LET ks == {k \in 1..Len(s) : s[k] = ch}
    IN IF ks = {} THEN -1 ELSE (CHOOSE k \in ks : \A j \in ks : k <= j) - 1

\* strings.LastIndex(s, ch): the index (from 0) of the last occurrence, -1 without one
LastIndex(s, ch) ==
    LET ks == {k \in 1..Len(s) : s[k] = ch}
    IN IF ks = {} THEN -1 ELSE (CHOOSE k \in ks : \A j \in ks : j <= k) - 1

\* strings.HasPrefix(s, ch) for a one-character prefix
HasPrefix(s, ch) == Len(s) >= 1 /\ s[1] = ch

\* strings.HasSuffix(s, ch) for a one-character suffix
HasSuffix(s, ch) == Len(s) >= 1 /\ s[Len(s)] = ch

\* RateLimit: ip := r.RemoteAddr; ip = ip[:colonPos] when there is a colon;
\* ip = ip[1 : len(ip)-1] when ip starts with "[" and ends with "]"
ClientID(addr) ==
    LET colonPos == LastIndex(addr, ":")
        cut == IF colonPos # -1 THEN SubSeq(addr, 1, colonPos) ELSE addr
    IN IF HasPrefix(cut, "[") /\ HasSuffix(cut, "]")
       THEN SubSeq(cut, 2, Len(cut) - 1)
       ELSE cut

\* the client ids the store of the model has room for, by client
IdOf == << <<"1">>, <<":", "1">> >>

KeyOf(id) == CHOOSE c \in Clients : IdOf[c] = id

\* RateLimit: a request arrives and the filter derives ip from r.RemoteAddr
RateLimitIp(p, addr) ==
    /\ pc[p] = "idle"
    /\ pc' = [pc EXCEPT ![p] = "rl_ip"]
    /\ remote' = [remote EXCEPT ![p] = addr]
    /\ ip' = [ip EXCEPT ![p] = ClientID(addr)]
    /\ UNCHANGED <<req, reqOut, limVars>>

\* RateLimit: limiter.Allow(ip) is called
RateLimitAllow(p) ==
    /\ \E c \in Clients : IdOf[c] = ip[p]
    /\ AllowCall(p, KeyOf(ip[p]), "rl_ip")

\* the request is over
RateLimitDone(p) ==
    /\ pc[p] \in {"rl_pass", "done"}
    /\ pc' = [pc EXCEPT ![p] = "idle"]
    /\ status' = [status EXCEPT ![p] = 0]
    /\ resp' = [resp EXCEPT ![p] = NoResponse]
    /\ remote' = [remote EXCEPT ![p] = <<>>]
    /\ ip' = [ip EXCEPT ![p] = <<>>]
    /\ UNCHANGED <<req, served, limVars>>

\* ---- main's router and the admin handler

\* client ids as they appear in a path or a request body
ClientName == <<"c1", "c2">>

ClientOf(name) == CHOOSE c \in Clients : ClientName[c] = name

\* a request body that does not decode
BadBody == [ok |-> FALSE, client_id |-> "", capacity |-> 0, rate |-> 0]

\* setLimitRequest bodies: client_id, capacity, rate
Bodies ==
    {BadBody,
     [ok |-> TRUE, client_id |-> "", capacity |-> MaxCapacity, rate |-> MaxRate],
     [ok |-> TRUE, client_id |-> "c1", capacity |-> 0, rate |-> MaxRate],
     [ok |-> TRUE, client_id |-> "c1", capacity |-> MaxCapacity, rate |-> 0],
     [ok |-> TRUE, client_id |-> "c1", capacity |-> MaxCapacity, rate |-> MaxRate]}

\* URL paths, split at "/": "/" is <<"">>, "/admin/limits/" is <<"admin", "limits", "">>
Paths ==
    {<<"">>, <<"admin">>, <<"admin", "limits">>, <<"admin", "limits", "">>,
     <<"admin", "limits", "c1">>}

\* the requests a client may send
Requests ==
    [path : Paths, method : {"GET"}, body : {BadBody}]
        \cup [path : {pa \in Paths : Len(pa) = 3}, method : {"DELETE", "PUT"}, body : {BadBody}]
        \cup [path : {pa \in Paths : Len(pa) = 3}, method : {"POST"}, body : Bodies]

\* a router that has only the pattern "/"
MuxRootOnly(path) == "balancer"

\* http.ServeMux with the patterns "/" and "/admin/limits/": the longest
\* matching pattern wins, and the subtree root without its trailing slash is
\* answered with a redirect to it
Mux(path) ==
    IF Len(path) >= 3 /\ path[1] = "admin" /\ path[2] = "limits" THEN "admin"
    ELSE IF path = <<"admin", "limits">> THEN "redirect"
    ELSE "balancer"

\* router.Handle("/", finalBalancerHandler): the filter in front of the
\* dispatcher when limiter != nil, the dispatcher alone otherwise
RouteBalancer(p, r, c) ==
    /\ pc[p] = "idle"
    /\ Mux(r.path) = "balancer"
    /\ req' = [req EXCEPT ![p] = r]
    /\ IF enabled
       THEN RateLimitEnter(p, c) /\ UNCHANGED poolRest
       ELSE StartRequest(p) /\ UNCHANGED limVars

\* router.Handle("/admin/limits/", ...): the admin handler or the 501 stub is called
RouteAdmin(p, r) ==
    /\ pc[p] = "idle"
    /\ Mux(r.path) = "admin"
    /\ req' = [req EXCEPT ![p] = r]
    /\ pc' = [pc EXCEPT ![p] = "admin"]
    /\ UNCHANGED <<reqOut, poolRest, limVars>>

\* http.ServeMux: "/admin/limits" is redirected to "/admin/limits/"
RouteRedirect(p, r) ==
    /\ pc[p] = "idle"
    /\ Mux(r.path) = "redirect"
    /\ req' = [req EXCEPT ![p] = r]
    /\ pc' = [pc EXCEPT ![p] = "done"]
    /\ status' = [status EXCEPT ![p] = 301]
    /\ resp' = [resp EXCEPT ![p] = HttpError("Moved Permanently", 301)]
    /\ UNCHANGED <<served, poolRest, limVars>>

\* httputil.RespondWithJSON: Content-Type JSON, the payload as the body
RespondWithJSON(code) == [ctype |-> JsonType, json |-> TRUE, code |-> Nil, message |-> ""]

\* AdminHandler.ServeHTTP: path = strings.Trim(strings.TrimPrefix(path, "/admin/limits"), "/")
TrimmedPath(path) ==
    LET rest == SelectSeq(SubSeq(path, 3, Len(path)), LAMBDA x : x # "")
    IN IF rest = <<>> THEN "" ELSE rest[1]

\* the handler writes its answer and returns
AdminAnswer(p, code, r) ==
    /\ pc' = [pc EXCEPT ![p] = "done"]
    /\ status' = [status EXCEPT ![p] = code]
    /\ resp' = [resp EXCEPT ![p] = r]
    /\ UNCHANGED <<served, poolRest>>

\* main: limitManager == nil: the stub answers 501
AdminStub(p) ==
    /\ pc[p] = "admin"
    /\ ~hasProvider
    /\ AdminAnswer(p, 501, RespondWithError(501, "Admin API is disabled (database not configured)"))
    /\ UNCHANGED limVars

\* AdminHandler.handleSetLimit: POST /admin/limits
handleSetLimit(p) ==
    /\ pc[p] = "admin"
    /\ hasProvider
    /\ req[p].method = "POST" /\ TrimmedPath(req[p].path) = ""
    /\ LET b == req[p].body
       IN IF ~b.ok
          THEN /\ AdminAnswer(p, 400, RespondWithError(400, "Invalid request body"))
               /\ UNCHANGED limVars
          ELSE IF b.client_id = ""
          THEN /\ AdminAnswer(p, 400, RespondWithError(400, "client_id is required"))
               /\ UNCHANGED limVars
          ELSE IF b.capacity <= 0
          THEN /\ AdminAnswer(p, 400, RespondWithError(400, "capacity must be positive"))
               /\ UNCHANGED limVars
          ELSE IF b.rate <= 0
          THEN /\ AdminAnswer(p, 400, RespondWithError(400, "rate must be positive"))
               /\ UNCHANGED limVars
          ELSE /\ SetLimit(ClientOf(b.client_id), b.capacity, b.rate, FALSE)
               /\ IF opErr'
                  THEN AdminAnswer(p, 500, RespondWithError(500, "Failed to set limit"))
                  ELSE AdminAnswer(p, 200, RespondWithJSON(200))

\* AdminHandler.handleGetLimit: GET /admin/limits/{client_id}
handleGetLimit(p) ==
    /\ pc[p] = "admin"
    /\ hasProvider
    /\ req[p].method = "GET" /\ TrimmedPath(req[p].path) # ""
    /\ LET c == ClientOf(TrimmedPath(req[p].path))
       IN /\ GetLimitCall(c)
          /\ IF GetLimit(c).found
             THEN AdminAnswer(p, 200, RespondWithJSON(200))
             ELSE AdminAnswer(p, 404, RespondWithError(404, "Limit not found for client"))

\* AdminHandler.handleDeleteLimit: DELETE /admin/limits/{client_id}
handleDeleteLimit(p) ==
    /\ pc[p] = "admin"
    /\ hasProvider
    /\ req[p].method = "DELETE" /\ TrimmedPath(req[p].path) # ""
    /\ DeleteLimit(ClientOf(TrimmedPath(req[p].path)), FALSE)
    /\ IF opErr'
       THEN AdminAnswer(p, 500, RespondWithError(500, "Failed to delete limit"))
       ELSE AdminAnswer(p, 204, NoResponse)

\* AdminHandler.ServeHTTP: the other combinations of method and path
AdminReject(p) ==
    /\ pc[p] = "admin"
    /\ hasProvider
    /\ LET id == TrimmedPath(req[p].path)
           m == req[p].method
       IN \/ /\ m = "POST" /\ id # ""
             /\ AdminAnswer(p, 405, RespondWithError(405, "Method Not Allowed (POST expects no client ID in path)"))
          \/ /\ m = "GET" /\ id = ""
             /\ AdminAnswer(p, 501, RespondWithError(501, "Listing limits is not implemented"))
          \/ /\ m = "DELETE" /\ id = ""
             /\ AdminAnswer(p, 405, RespondWithError(405, "Method Not Allowed (DELETE expects client ID in path)"))
          \/ /\ m \notin {"POST", "GET", "DELETE"}
             /\ AdminAnswer(p, 405, RespondWithError(405, "Method Not Allowed"))
    /\ UNCHANGED limVars

\* the server is done with the request
ServerDone(p) ==
    /\ Finish(p)
    /\ req' = [req EXCEPT ![p] = NoRequest]

\* ---- the reaper

\* runCleanup: inactivityThreshold := l.cleanupInterval * 2
InactivityThreshold == CleanupInterval * 2

\* Bucket.IsInactive: time.Since(lastAccessTime) > threshold
IsInactive(last, t) == t - last > InactivityThreshold

\* runCleanup: case <-ticker.C; the ticker's first tick comes one
\* cleanupInterval after NewLimiter
ReapTick ==
    /\ rpc = "wait"
    /\ now >= CleanupInterval
    /\ rpc' = "lock"
    /\ UNCHANGED <<pc, reqOut, cfgVars, storeVars, callVars, rTodo, rCur, rLast,
                   stopChan, spc, shutdown>>

\* runCleanup: l.store.mu.Lock(); the range over the map begins
ReapLock ==
    /\ rpc = "lock"
    /\ CanLock(smu)
    /\ smu' = Reaper
    /\ rTodo' = {c \in Clients : buckets[c] # 0}
    /\ rpc' = "sweep"
    /\ UNCHANGED <<pc, reqOut, cfgVars, buckets, heap, bmu, fresh, callVars, rCur, rLast,
                   stopChan, spc, shutdown>>

\* IsInactive: b.mu.Lock(); lastAccessTime := b.lastAccess; b.mu.Unlock()
SweepRead(c) ==
    /\ rpc = "sweep"
    /\ c \in rTodo
    /\ CanLock(bmu[buckets[c]])
    /\ rCur' = c
    /\ rLast' = heap[buckets[c]].lastAccess
    /\ rpc' = "decide"
    /\ UNCHANGED <<pc, reqOut, cfgVars, storeVars, callVars, rTodo, stopChan, spc, shutdown>>

\* IsInactive: return time.Since(lastAccessTime) > threshold; delete(l.store.buckets, id)
SweepDecide ==
    /\ rpc = "decide"
    /\ buckets' = IF IsInactive(rLast, now) THEN [buckets EXCEPT ![rCur] = 0] ELSE buckets
    /\ heap' = Collect(heap, buckets', bk)
    /\ fresh' = fresh \cap Referenced(buckets', bk)
    /\ rTodo' = rTodo \ {rCur}
    /\ rCur' = 0
    /\ rLast' = 0
    /\ rpc' = "sweep"
    /\ UNCHANGED <<pc, reqOut, cfgVars, smu, bmu, callVars, stopChan, spc, shutdown>>

\* a sweep that returns to the ticker without l.store.mu.Unlock()
SweepEndKeepsLock ==
    /\ rpc = "sweep"
    /\ rTodo = {}
    /\ rpc' = "wait"
    /\ UNCHANGED <<pc, reqOut, cfgVars, storeVars, callVars, rTodo, rCur,
                   rLast, stopChan, spc, shutdown>>

\* runCleanup: the range is over; l.store.mu.Unlock()
SweepEnd ==
    /\ rpc = "sweep"
    /\ rTodo = {}
    /\ smu' = 0
    /\ rpc' = "wait"
    /\ UNCHANGED <<pc, reqOut, cfgVars, buckets, heap, bmu, fresh, callVars, rTodo, rCur,
                   rLast, stopChan, spc, shutdown>>

\* runCleanup: case <-l.stopChan: return; the deferred wg.Done() runs
ReapStop ==
    /\ rpc = "wait"
    /\ stopChan
    /\ rpc' = "exited"
    /\ UNCHANGED <<pc, reqOut, cfgVars, storeVars, callVars, rTodo, rCur, rLast,
                   stopChan, spc, shutdown>>

\* Limiter.Stop: close(l.stopChan)
StopClose ==
    /\ spc = "none"
    /\ stopChan' = TRUE
    /\ spc' = "waiting"
    /\ UNCHANGED <<pc, reqOut, cfgVars, storeVars, callVars, rpc, rTodo, rCur, rLast, shutdown>>

\* Stop that does not wait for the cleanup goroutine
WgDoneNoWait == TRUE

\* l.wg.Wait() returns once the cleanup goroutine has called wg.Done()
WgDone == rpc = "exited"

\* Limiter.Stop: l.wg.Wait() returns
StopReturn ==
    /\ spc = "waiting"
    /\ WgDone
    /\ spc' = "returned"
    /\ UNCHANGED <<pc, reqOut, cfgVars, storeVars, callVars, rpc, rTodo, rCur, rLast,
                   stopChan, shutdown>>

\* main: <-quit, the shutdown signal has arrived; nothing in the pool reads it
Quit ==
    /\ ~shutdown
    /\ shutdown' = TRUE
    /\ UNCHANGED <<bucketVars, poolVars, cfgVars, storeVars, callVars, reaperVars, reqVars>>

\* ------------------------------------------------------- specifications

\* main with rate limiting disabled: no store, no limiter, no cleanup goroutine
LimiterAtRest ==
    /\ enabled = FALSE
    /\ defaultCapacity = 1
    /\ defaultRefillRate = 1
    /\ hasProvider = FALSE
    /\ limits = [c \in Clients |-> NoLimit]
    /\ ops = <<>>
    /\ opErr = FALSE
    /\ got = NoCall
    /\ buckets = [c \in Clients |-> 0]
    /\ heap = [id \in BucketIds |-> NilBucket]
    /\ smu = 0
    /\ bmu = [id \in BucketIds |-> 0]
    /\ client = [p \in Procs |-> 0]
    /\ bk = [p \in Procs |-> 0]
    /\ ans = [p \in Procs |-> NoLimit]
    /\ allowed = [p \in Procs |-> FALSE]
    /\ fresh = {}
    /\ cold = [p \in Procs |-> FALSE]
    /\ rpc = "exited"
    /\ rTodo = {}
    /\ rCur = 0
    /\ rLast = 0
    /\ stopChan = FALSE
    /\ spc = "none"
    /\ shutdown = FALSE

\* the single bucket of the bucket specification, at rest
BucketAtRest ==
    /\ bucket = NewBucket(1, 1, 0) /\ mu = 0
    /\ bpc = [g \in Goroutines |-> "idle"]
    /\ calls = <<>> /\ idleTokens = 1 /\ idleDur = 0 /\ burstTokens = 1

\* the pool at rest: no backend, no request handler running
PoolAtRest ==
    /\ n = 0 /\ alive = <<>> /\ up = <<>> /\ current = 0
    /\ hc = "start" /\ probe = <<>>
    /\ IdleLocals

\* the bucket under concurrent Allow calls and passing time; the pool is at rest
BucketSpecInit ==
    /\ BucketInit
    /\ n = 0 /\ alive = <<>> /\ up = <<>> /\ current = 0
    /\ hc = "start" /\ probe = <<>>
    /\ IdleLocals
    /\ LimiterAtRest

BucketSpecNext ==
    \/ \E g \in Goroutines : AllowLock(g) /\ UNCHANGED <<poolVars, limVars, reqVars>>
    \/ \E g \in Goroutines : AllowRefill(g) /\ UNCHANGED <<poolVars, limVars, reqVars>>
    \/ \E g \in Goroutines : AllowCheck(g) /\ UNCHANGED <<poolVars, limVars, reqVars>>
    \/ \E g \in Goroutines : AllowTake(g) /\ UNCHANGED <<poolVars, limVars, reqVars>>
    \/ \E g \in Goroutines : AllowUnlock(g) /\ UNCHANGED <<poolVars, limVars, reqVars>>
    \/ Tick /\ UNCHANGED <<poolVars, limVars, reqVars>>

SpecBucket == BucketSpecInit /\ [][BucketSpecNext]_vars

\* the pool, the dispatcher, the error handler and the health checker;
\* the bucket is at rest
PoolSpecInit ==
    /\ PoolInit
    /\ now = 0 /\ bucket = NewBucket(1, 1, 0) /\ mu = 0
    /\ bpc = [g \in Goroutines |-> "idle"]
    /\ calls = <<>> /\ idleTokens = 1 /\ idleDur = 0 /\ burstTokens = 1
    /\ LimiterAtRest

PoolSpecNext ==
    \/ \E p \in Procs : StartRequest(p) /\ UNCHANGED <<bucketVars, limVars, reqVars>>
    \/ \E p \in Procs : GnpLoad(p) /\ UNCHANGED <<bucketVars, limVars, reqVars>>
    \/ \E p \in Procs : GnpScan(p) /\ UNCHANGED <<bucketVars, limVars, reqVars>>
    \/ \E p \in Procs : GnpStore(p) /\ UNCHANGED <<bucketVars, limVars, reqVars>>
    \/ \E p \in Procs : AfterTry(p) /\ UNCHANGED <<bucketVars, limVars, reqVars>>
    \/ \E p \in Procs : Handoff(p) /\ UNCHANGED <<bucketVars, limVars, reqVars>>
    \/ \E p \in Procs : Proxy(p) /\ UNCHANGED <<bucketVars, limVars, reqVars>>
    \/ \E p \in Procs : ErrorHandler(p) /\ UNCHANGED <<bucketVars, limVars, reqVars>>
    \/ \E p \in Procs : Finish(p) /\ UNCHANGED <<bucketVars, limVars, reqVars>>
    \/ HcStartCycle /\ UNCHANGED <<bucketVars, limVars, reqVars>>
    \/ \E b \in Backends : ProbeDial(b) /\ UNCHANGED <<bucketVars, limVars, reqVars>>
    \/ \E b \in Backends : ProbeSet(b) /\ UNCHANGED <<bucketVars, limVars, reqVars>>
    \/ HcJoin /\ UNCHANGED <<bucketVars, limVars, reqVars>>
    \/ \E b \in Backends : EnvFlip(b) /\ UNCHANGED <<bucketVars, limVars, reqVars>>

SpecPool == PoolSpecInit /\ [][PoolSpecNext]_vars


\* sequential GetNextPeer calls on a pool built as a literal, as the unit
\* tests do: any liveness flags, no health checker, no dispatcher
TestInit ==
    /\ n \in 0..MaxTestBackends
    /\ alive \in [Backends -> BOOLEAN]
    /\ up = [b \in Backends |-> FALSE]
    /\ current = 0
    /\ hc = "start"
    /\ probe = [b \in Backends |-> "none"]
    /\ IdleLocals

\* peer := pool.GetNextPeer()
TestCall(p) ==
    /\ pc[p] = "idle"
    /\ Len(picks) < MaxPicks
    /\ pc' = [pc EXCEPT ![p] = "gnp_load"]
    /\ callCursor' = current
    /\ UNCHANGED <<n, alive, up, current, currentIdx, i, attempts, peer, retry,
                   status, tries, handoffs, everAlive, hc, probe, picks, resp, served>>

\* the caller records the result
TestObserve(p) ==
    /\ pc[p] = "gnp_ret"
    /\ picks' = Append(picks, peer[p])
    /\ pc' = [pc EXCEPT ![p] = "idle"]
    /\ i' = [i EXCEPT ![p] = 0]
    /\ UNCHANGED <<n, alive, up, current, currentIdx, attempts, peer, retry,
                   status, tries, handoffs, everAlive, hc, probe, callCursor, resp, served>>

TestSpecInit ==
    /\ TestInit
    /\ now = 0 /\ bucket = NewBucket(1, 1, 0) /\ mu = 0
    /\ bpc = [g \in Goroutines |-> "idle"]
    /\ calls = <<>> /\ idleTokens = 1 /\ idleDur = 0 /\ burstTokens = 1
    /\ LimiterAtRest

TestSpecNext ==
    \/ TestCall(1) /\ UNCHANGED <<bucketVars, limVars, reqVars>>
    \/ GnpLoad(1) /\ UNCHANGED <<bucketVars, limVars, reqVars>>
    \/ GnpScan(1) /\ UNCHANGED <<bucketVars, limVars, reqVars>>
    \/ GnpStore(1) /\ UNCHANGED <<bucketVars, limVars, reqVars>>
    \/ TestObserve(1) /\ UNCHANGED <<bucketVars, limVars, reqVars>>

SpecRR == TestSpecInit /\ [][TestSpecNext]_vars

\* sequential requests between two probe cycles: every backend was flagged
\* alive by the last cycle, the health checker waits for its ticker, upstreams
\* go down and come back
SeqInit ==
    /\ n \in 1..MaxTestBackends
    /\ alive = [b \in Backends |-> TRUE]
    /\ up \in [Backends -> BOOLEAN]
    /\ current = 0
    /\ hc = "wait"
    /\ probe = [b \in Backends |-> "none"]
    /\ IdleLocals

SeqSpecInit ==
    /\ SeqInit
    /\ now = 0 /\ bucket = NewBucket(1, 1, 0) /\ mu = 0
    /\ bpc = [g \in Goroutines |-> "idle"]
    /\ calls = <<>> /\ idleTokens = 1 /\ idleDur = 0 /\ burstTokens = 1
    /\ LimiterAtRest

SeqSpecNext ==
    \/ StartRequest(1) /\ UNCHANGED <<bucketVars, limVars, reqVars>>
    \/ GnpLoad(1) /\ UNCHANGED <<bucketVars, limVars, reqVars>>
    \/ GnpScan(1) /\ UNCHANGED <<bucketVars, limVars, reqVars>>
    \/ GnpStore(1) /\ UNCHANGED <<bucketVars, limVars, reqVars>>
    \/ AfterTry(1) /\ UNCHANGED <<bucketVars, limVars, reqVars>>
    \/ Handoff(1) /\ UNCHANGED <<bucketVars, limVars, reqVars>>
    \/ Proxy(1) /\ UNCHANGED <<bucketVars, limVars, reqVars>>
    \/ ErrorHandler(1) /\ UNCHANGED <<bucketVars, limVars, reqVars>>
    \/ Finish(1) /\ UNCHANGED <<bucketVars, limVars, reqVars>>
    \/ \E b \in Backends : EnvFlip(b) /\ UNCHANGED <<bucketVars, limVars, reqVars>>

SpecSeq == SeqSpecInit /\ [][SeqSpecNext]_vars

\* the limiter serving one client: concurrent direct callers of Limiter.Allow,
\* the reaper and passing time; the pool and the single bucket are at rest
LimiterSpecInit ==
    /\ LimiterInit
    /\ \A c \in Clients \ {1} : limits[c] = NoLimit
    /\ now = 0
    /\ BucketAtRest
    /\ PoolAtRest

LimiterSpecNext ==
    \/ \E p \in Procs : LimCall(p, 1) /\ UNCHANGED <<bucketVars, poolRest, reqVars>>
    \/ \E p \in Procs : GocRead(p) /\ UNCHANGED <<bucketVars, poolRest, reqVars>>
    \/ \E p \in Procs : GocLock(p) /\ UNCHANGED <<bucketVars, poolRest, reqVars>>
    \/ \E p \in Procs : GocGetLimit(p) /\ UNCHANGED <<bucketVars, poolRest, reqVars>>
    \/ \E p \in Procs : GocCreate(p) /\ UNCHANGED <<bucketVars, poolRest, reqVars>>
    \/ \E p \in Procs : LaGot(p) /\ UNCHANGED <<bucketVars, poolRest, reqVars>>
    \/ \E p \in Procs : BaBody(p) /\ UNCHANGED <<bucketVars, poolRest, reqVars>>
    \/ \E p \in Procs : LimReturn(p) /\ UNCHANGED <<bucketVars, poolRest, reqVars>>
    \/ ReapTick /\ UNCHANGED <<bucketVars, poolRest, reqVars>>
    \/ ReapLock /\ UNCHANGED <<bucketVars, poolRest, reqVars>>
    \/ \E c \in Clients : SweepRead(c) /\ UNCHANGED <<bucketVars, poolRest, reqVars>>
    \/ SweepDecide /\ UNCHANGED <<bucketVars, poolRest, reqVars>>
    \/ SweepEnd /\ UNCHANGED <<bucketVars, poolRest, reqVars>>
    \/ Tick /\ UNCHANGED <<poolVars, limVars, reqVars>>

SpecLimiter == LimiterSpecInit /\ [][LimiterSpecNext]_vars

\* the limiter serving several clients at one instant after the first
\* cleanupInterval: callers of different clients, provider lookups and reaper
\* sweeps interleave; time stands still
HotSpecInit ==
    /\ LimiterInit
    /\ now = CleanupInterval
    /\ BucketAtRest
    /\ PoolAtRest

HotSpecNext ==
    \/ \E p \in Procs, c \in Clients : LimCall(p, c) /\ UNCHANGED <<bucketVars, poolRest, reqVars>>
    \/ \E p \in Procs : GocRead(p) /\ UNCHANGED <<bucketVars, poolRest, reqVars>>
    \/ \E p \in Procs : GocLock(p) /\ UNCHANGED <<bucketVars, poolRest, reqVars>>
    \/ \E p \in Procs : GocGetLimit(p) /\ UNCHANGED <<bucketVars, poolRest, reqVars>>
    \/ \E p \in Procs : GocCreate(p) /\ UNCHANGED <<bucketVars, poolRest, reqVars>>
    \/ \E p \in Procs : LaGot(p) /\ UNCHANGED <<bucketVars, poolRest, reqVars>>
    \/ \E p \in Procs : BaBody(p) /\ UNCHANGED <<bucketVars, poolRest, reqVars>>
    \/ \E p \in Procs : LimReturn(p) /\ UNCHANGED <<bucketVars, poolRest, reqVars>>
    \/ ReapTick /\ UNCHANGED <<bucketVars, poolRest, reqVars>>
    \/ ReapLock /\ UNCHANGED <<bucketVars, poolRest, reqVars>>
    \/ \E c \in Clients : SweepRead(c) /\ UNCHANGED <<bucketVars, poolRest, reqVars>>
    \/ SweepDecide /\ UNCHANGED <<bucketVars, poolRest, reqVars>>
    \/ SweepEnd /\ UNCHANGED <<bucketVars, poolRest, reqVars>>

SpecHotPath == HotSpecInit /\ [][HotSpecNext]_vars

\* the limiter's shutdown: one caller of Limiter.Allow, the reaper, one call
\* of Limiter.Stop and passing time
StopSpecInit ==
    /\ LimiterInit
    /\ \A c \in Clients \ {1} : limits[c] = NoLimit
    /\ now = 0
    /\ BucketAtRest
    /\ PoolAtRest

CallerStep(A) == A /\ UNCHANGED <<bucketVars, poolRest, reqVars>>

StopSpecNext ==
    \/ CallerStep(LimCall(1, 1))
    \/ CallerStep(GocRead(1))
    \/ CallerStep(GocLock(1))
    \/ CallerStep(GocGetLimit(1))
    \/ CallerStep(GocCreate(1))
    \/ CallerStep(LaGot(1))
    \/ CallerStep(BaBody(1))
    \/ CallerStep(LimReturn(1))
    \/ CallerStep(ReapTick)
    \/ CallerStep(ReapLock)
    \/ \E c \in Clients : CallerStep(SweepRead(c))
    \/ CallerStep(SweepDecide)
    \/ CallerStep(SweepEnd)
    \/ CallerStep(ReapStop)
    \/ CallerStep(StopClose)
    \/ CallerStep(StopReturn)
    \/ Tick /\ UNCHANGED <<poolVars, limVars, reqVars>>

\* scheduling: a goroutine that holds a lock or runs the sweep keeps running
\* and the provider answers; sync.Mutex and sync.RWMutex do not starve a
\* waiter; select takes a ready case at random, so a closed stopChan is
\* not passed over forever; Stop's caller runs
StopFairness ==
    /\ WF_vars(CallerStep(GocGetLimit(1)))
    /\ WF_vars(CallerStep(GocCreate(1)))
    /\ WF_vars(CallerStep(BaBody(1)))
    /\ SF_vars(CallerStep(ReapLock))
    /\ SF_vars(\E c \in Clients : CallerStep(SweepRead(c)))
    /\ WF_vars(CallerStep(SweepDecide))
    /\ WF_vars(CallerStep(SweepEnd))
    /\ SF_vars(CallerStep(ReapStop))
    /\ WF_vars(CallerStep(StopReturn))

SpecStop == StopSpecInit /\ [][StopSpecNext]_vars /\ StopFairness

\* the limiter's locks at one instant after the first cleanupInterval:
\* concurrent callers of Limiter.Allow for one client, the reaper and one call
\* of Limiter.Stop; time stands still
LockSpecInit ==
    /\ LimiterInit
    /\ \A c \in Clients \ {1} : limits[c] = NoLimit
    /\ limits[1] \in {NoLimit, [found |-> TRUE, capacity |-> MaxCapacity, rate |-> MaxRate]}
    /\ now = CleanupInterval
    /\ BucketAtRest
    /\ PoolAtRest

LockSpecNext ==
    \/ \E p \in Procs : CallerStep(LimCall(p, 1))
    \/ \E p \in Procs : CallerStep(GocRead(p))
    \/ \E p \in Procs : CallerStep(GocLock(p))
    \/ \E p \in Procs : CallerStep(GocGetLimit(p))
    \/ \E p \in Procs : CallerStep(GocCreate(p))
    \/ \E p \in Procs : CallerStep(LaGot(p))
    \/ \E p \in Procs : CallerStep(BaBody(p))
    \/ \E p \in Procs : CallerStep(LimReturn(p))
    \/ CallerStep(ReapTick)
    \/ CallerStep(ReapLock)
    \/ \E c \in Clients : CallerStep(SweepRead(c))
    \/ CallerStep(SweepDecide)
    \/ CallerStep(SweepEnd)
    \/ CallerStep(ReapStop)
    \/ CallerStep(StopClose)
    \/ CallerStep(StopReturn)

\* scheduling: every goroutine that can run does run; sync.RWMutex and
\* sync.Mutex hand the lock to a waiter that finds it free again and again
\* (a blocked Lock is not starved); select takes a ready case at random
LockFairness ==
    /\ \A p \in Procs : SF_vars(CallerStep(GocRead(p)))
    /\ \A p \in Procs : SF_vars(CallerStep(GocLock(p)))
    /\ \A p \in Procs : WF_vars(CallerStep(GocGetLimit(p)))
    /\ \A p \in Procs : WF_vars(CallerStep(GocCreate(p)))
    /\ \A p \in Procs : SF_vars(CallerStep(LaGot(p)))
    /\ \A p \in Procs : WF_vars(CallerStep(BaBody(p)))
    /\ SF_vars(CallerStep(ReapLock))
    /\ SF_vars(\E c \in Clients : CallerStep(SweepRead(c)))
    /\ WF_vars(CallerStep(SweepDecide))
    /\ WF_vars(CallerStep(SweepEnd))
    /\ SF_vars(CallerStep(ReapStop))
    /\ WF_vars(CallerStep(StopReturn))

SpecLock == LockSpecInit /\ [][LockSpecNext]_vars /\ LockFairness

\* the limiter with a default bucket that takes longer to fill than the
\* inactivity threshold (capacity MaxCapacity at 1 token/s) and no provider:
\* concurrent callers of Limiter.Allow for one client, the reaper and
\* passing time
EvictSpecInit ==
    /\ enabled = TRUE
    /\ defaultCapacity = MaxCapacity
    /\ defaultRefillRate = 1
    /\ hasProvider = FALSE
    /\ limits = [c \in Clients |-> NoLimit]
    /\ ops = <<>>
    /\ opErr = FALSE
    /\ got = NoCall
    /\ buckets = [c \in Clients |-> 0]
    /\ heap = [id \in BucketIds |-> NilBucket]
    /\ smu = 0
    /\ bmu = [id \in BucketIds |-> 0]
    /\ client = [p \in Procs |-> 0]
    /\ bk = [p \in Procs |-> 0]
    /\ ans = [p \in Procs |-> NoLimit]
    /\ allowed = [p \in Procs |-> FALSE]
    /\ fresh = {}
    /\ cold = [p \in Procs |-> FALSE]
    /\ rpc = "wait"
    /\ rTodo = {}
    /\ rCur = 0
    /\ rLast = 0
    /\ stopChan = FALSE
    /\ spc = "none"
    /\ shutdown = FALSE
    /\ now = 0
    /\ BucketAtRest
    /\ PoolAtRest

EvictSpecNext ==
    \/ \E p \in Procs : LimCall(p, 1) /\ UNCHANGED <<bucketVars, poolRest, reqVars>>
    \/ \E p \in Procs : GocRead(p) /\ UNCHANGED <<bucketVars, poolRest, reqVars>>
    \/ \E p \in Procs : GocLock(p) /\ UNCHANGED <<bucketVars, poolRest, reqVars>>
    \/ \E p \in Procs : GocCreate(p) /\ UNCHANGED <<bucketVars, poolRest, reqVars>>
    \/ \E p \in Procs : LaGot(p) /\ UNCHANGED <<bucketVars, poolRest, reqVars>>
    \/ \E p \in Procs : BaBody(p) /\ UNCHANGED <<bucketVars, poolRest, reqVars>>
    \/ \E p \in Procs : LimReturn(p) /\ UNCHANGED <<bucketVars, poolRest, reqVars>>
    \/ ReapTick /\ UNCHANGED <<bucketVars, poolRest, reqVars>>
    \/ ReapLock /\ UNCHANGED <<bucketVars, poolRest, reqVars>>
    \/ \E c \in Clients : SweepRead(c) /\ UNCHANGED <<bucketVars, poolRest, reqVars>>
    \/ SweepDecide /\ UNCHANGED <<bucketVars, poolRest, reqVars>>
    \/ SweepEnd /\ UNCHANGED <<bucketVars, poolRest, reqVars>>
    \/ Tick /\ UNCHANGED <<poolVars, limVars, reqVars>>

SpecEvict == EvictSpecInit /\ [][EvictSpecNext]_vars

\* main with rate limiting enabled: a request passes the filter, then the
\* dispatcher; one client, no provider, the pool at some instant of its life
\* (flags as the last probe cycle left them), upstreams going down and
\* coming back, passing time
GateSpecInit ==
    /\ LimiterInit
    /\ ~hasProvider
    /\ now = 0
    /\ BucketAtRest
    /\ n \in 0..MaxBackends
    /\ alive \in [Backends -> BOOLEAN]
    /\ up \in [Backends -> BOOLEAN]
    /\ current = 0
    /\ hc = "wait"
    /\ probe = [b \in Backends |-> "none"]
    /\ IdleLocals

GateSpecNext ==
    \/ RateLimitEnter(1, 1) /\ UNCHANGED <<bucketVars, poolRest, reqVars>>
    \/ GocRead(1) /\ UNCHANGED <<bucketVars, poolRest, reqVars>>
    \/ GocLock(1) /\ UNCHANGED <<bucketVars, poolRest, reqVars>>
    \/ GocCreate(1) /\ UNCHANGED <<bucketVars, poolRest, reqVars>>
    \/ LaGot(1) /\ UNCHANGED <<bucketVars, poolRest, reqVars>>
    \/ BaBody(1) /\ UNCHANGED <<bucketVars, poolRest, reqVars>>
    \/ RateLimitRefuse(1) /\ UNCHANGED <<bucketVars, poolRest, reqVars>>
    \/ RateLimitPass(1) /\ UNCHANGED <<bucketVars, poolRest, reqVars>>
    \/ NextHandler(1) /\ UNCHANGED <<bucketVars, limVars, reqVars>>
    \/ GnpLoad(1) /\ UNCHANGED <<bucketVars, limVars, reqVars>>
    \/ GnpScan(1) /\ UNCHANGED <<bucketVars, limVars, reqVars>>
    \/ GnpStore(1) /\ UNCHANGED <<bucketVars, limVars, reqVars>>
    \/ AfterTry(1) /\ UNCHANGED <<bucketVars, limVars, reqVars>>
    \/ Handoff(1) /\ UNCHANGED <<bucketVars, limVars, reqVars>>
    \/ Proxy(1) /\ UNCHANGED <<bucketVars, limVars, reqVars>>
    \/ ErrorHandler(1) /\ UNCHANGED <<bucketVars, limVars, reqVars>>
    \/ Finish(1) /\ UNCHANGED <<bucketVars, limVars, reqVars>>
    \/ \E b \in Backends : EnvFlip(b) /\ UNCHANGED <<bucketVars, limVars, reqVars>>
    \/ Tick /\ UNCHANGED <<poolVars, limVars, reqVars>>

SpecGate == GateSpecInit /\ [][GateSpecNext]_vars

\* the life of the health checker: started by main right after the pool's
\* construction, probing while upstreams go down and come back, and main
\* receiving the shutdown signal
LifeSpecInit ==
    /\ PoolInit
    /\ now = 0
    /\ BucketAtRest
    /\ LimiterAtRest

LifeSpecNext ==
    \/ HcStartCycle /\ UNCHANGED <<bucketVars, limVars, reqVars>>
    \/ \E b \in Backends : ProbeDial(b) /\ UNCHANGED <<bucketVars, limVars, reqVars>>
    \/ \E b \in Backends : ProbeSet(b) /\ UNCHANGED <<bucketVars, limVars, reqVars>>
    \/ HcJoin /\ UNCHANGED <<bucketVars, limVars, reqVars>>
    \/ \E b \in Backends : EnvFlip(b) /\ UNCHANGED <<bucketVars, limVars, reqVars>>
    \/ Quit

SpecLife == LifeSpecInit /\ [][LifeSpecNext]_vars

\* the limit store alone, from an empty table: any sequence of SetLimit,
\* DeleteLimit and GetLimit calls
LimitsSpecInit ==
    /\ LimiterAtRest
    /\ now = 0
    /\ BucketAtRest
    /\ PoolAtRest

LimitsSpecNext ==
    \/ \E c \in Clients, r \in LimitRows :
          SetLimit(c, r.capacity, r.rate, TRUE) /\ UNCHANGED <<bucketVars, poolVars, reqVars>>
    \/ \E c \in Clients : DeleteLimit(c, TRUE) /\ UNCHANGED <<bucketVars, poolVars, reqVars>>
    \/ \E c \in Clients : GetLimitCall(c) /\ UNCHANGED <<bucketVars, poolVars, reqVars>>

SpecLimits == LimitsSpecInit /\ [][LimitsSpecNext]_vars

\* the limiter with its limit store being edited: callers of Limiter.Allow
\* for one client, the reaper, passing time, and SetLimit and DeleteLimit
\* calls for that client
AdminSpecInit ==
    /\ LimiterInit
    /\ hasProvider
    /\ \A c \in Clients \ {1} : limits[c] = NoLimit
    /\ now = 0
    /\ BucketAtRest
    /\ PoolAtRest

AdminSpecNext ==
    \/ \E p \in Procs : LimCall(p, 1) /\ UNCHANGED <<bucketVars, poolRest, reqVars>>
    \/ \E p \in Procs : GocRead(p) /\ UNCHANGED <<bucketVars, poolRest, reqVars>>
    \/ \E p \in Procs : GocLock(p) /\ UNCHANGED <<bucketVars, poolRest, reqVars>>
    \/ \E p \in Procs : GocGetLimit(p) /\ UNCHANGED <<bucketVars, poolRest, reqVars>>
    \/ \E p \in Procs : GocCreate(p) /\ UNCHANGED <<bucketVars, poolRest, reqVars>>
    \/ \E p \in Procs : LaGot(p) /\ UNCHANGED <<bucketVars, poolRest, reqVars>>
    \/ \E p \in Procs : BaBody(p) /\ UNCHANGED <<bucketVars, poolRest, reqVars>>
    \/ \E p \in Procs : LimReturn(p) /\ UNCHANGED <<bucketVars, poolRest, reqVars>>
    \/ ReapTick /\ UNCHANGED <<bucketVars, poolRest, reqVars>>
    \/ ReapLock /\ UNCHANGED <<bucketVars, poolRest, reqVars>>
    \/ \E c \in Clients : SweepRead(c) /\ UNCHANGED <<bucketVars, poolRest, reqVars>>
    \/ SweepDecide /\ UNCHANGED <<bucketVars, poolRest, reqVars>>
    \/ SweepEnd /\ UNCHANGED <<bucketVars, poolRest, reqVars>>
    \/ \E r \in LimitRows :
          SetLimit(1, r.capacity, r.rate, FALSE) /\ UNCHANGED <<bucketVars, poolVars, reqVars>>
    \/ DeleteLimit(1, FALSE) /\ UNCHANGED <<bucketVars, poolVars, reqVars>>
    \/ Tick /\ UNCHANGED <<poolVars, limVars, reqVars>>

SpecAdmin == AdminSpecInit /\ [][AdminSpecNext]_vars

\* main's router: requests for any path, with the limiter enabled or not and
\* the limit store configured or not (empty at first); the clients of the
\* load-balancing path share one address; the pool has one backend
RouterSpecInit ==
    /\ LimiterInit \/ LimiterAtRest
    /\ limits = [c \in Clients |-> NoLimit]
    /\ now = 0
    /\ BucketAtRest
    /\ n = 1
    /\ alive \in [Backends -> BOOLEAN]
    /\ up \in [Backends -> BOOLEAN]
    /\ current = 0
    /\ hc = "wait"
    /\ probe = [b \in Backends |-> "none"]
    /\ IdleLocals

RouterSpecNext ==
    \/ \E p \in Procs, r \in Requests : RouteBalancer(p, r, 1) /\ UNCHANGED <<bucketVars, remote, ip>>
    \/ \E p \in Procs, r \in Requests : RouteAdmin(p, r) /\ UNCHANGED <<bucketVars, remote, ip>>
    \/ \E p \in Procs, r \in Requests : RouteRedirect(p, r) /\ UNCHANGED <<bucketVars, remote, ip>>
    \/ \E p \in Procs : AdminStub(p) /\ UNCHANGED <<bucketVars, reqVars>>
    \/ \E p \in Procs : handleSetLimit(p) /\ UNCHANGED <<bucketVars, reqVars>>
    \/ \E p \in Procs : handleGetLimit(p) /\ UNCHANGED <<bucketVars, reqVars>>
    \/ \E p \in Procs : handleDeleteLimit(p) /\ UNCHANGED <<bucketVars, reqVars>>
    \/ \E p \in Procs : AdminReject(p) /\ UNCHANGED <<bucketVars, reqVars>>
    \/ \E p \in Procs : GocRead(p) /\ UNCHANGED <<bucketVars, poolRest, reqVars>>
    \/ \E p \in Procs : GocLock(p) /\ UNCHANGED <<bucketVars, poolRest, reqVars>>
    \/ \E p \in Procs : GocGetLimit(p) /\ UNCHANGED <<bucketVars, poolRest, reqVars>>
    \/ \E p \in Procs : GocCreate(p) /\ UNCHANGED <<bucketVars, poolRest, reqVars>>
    \/ \E p \in Procs : LaGot(p) /\ UNCHANGED <<bucketVars, poolRest, reqVars>>
    \/ \E p \in Procs : BaBody(p) /\ UNCHANGED <<bucketVars, poolRest, reqVars>>
    \/ \E p \in Procs : RateLimitRefuse(p) /\ UNCHANGED <<bucketVars, poolRest, reqVars>>
    \/ \E p \in Procs : RateLimitPass(p) /\ UNCHANGED <<bucketVars, poolRest, reqVars>>
    \/ \E p \in Procs : NextHandler(p) /\ UNCHANGED <<bucketVars, limVars, reqVars>>
    \/ \E p \in Procs : GnpLoad(p) /\ UNCHANGED <<bucketVars, limVars, reqVars>>
    \/ \E p \in Procs : GnpScan(p) /\ UNCHANGED <<bucketVars, limVars, reqVars>>
    \/ \E p \in Procs : GnpStore(p) /\ UNCHANGED <<bucketVars, limVars, reqVars>>
    \/ \E p \in Procs : AfterTry(p) /\ UNCHANGED <<bucketVars, limVars, reqVars>>
    \/ \E p \in Procs : Handoff(p) /\ UNCHANGED <<bucketVars, limVars, reqVars>>
    \/ \E p \in Procs : Proxy(p) /\ UNCHANGED <<bucketVars, limVars, reqVars>>
    \/ \E p \in Procs : ErrorHandler(p) /\ UNCHANGED <<bucketVars, limVars, reqVars>>
    \/ \E p \in Procs : ServerDone(p) /\ UNCHANGED <<bucketVars, limVars, remote, ip>>

SpecRouter == RouterSpecInit /\ [][RouterSpecNext]_vars

\* the filter alone: requests from any remote address; Limiter.Allow is
\* followed for the client ids the store of the model has room for
AddrSpecInit ==
    /\ LimiterInit
    /\ ~hasProvider
    /\ now = 0
    /\ BucketAtRest
    /\ PoolAtRest

AddrSpecNext ==
    \/ \E p \in Procs, a \in Addrs : RateLimitIp(p, a) /\ UNCHANGED <<bucketVars, poolRest>>
    \/ \E p \in Procs : RateLimitAllow(p) /\ UNCHANGED <<bucketVars, poolRest, reqVars>>
    \/ \E p \in Procs : GocRead(p) /\ UNCHANGED <<bucketVars, poolRest, reqVars>>
    \/ \E p \in Procs : GocLock(p) /\ UNCHANGED <<bucketVars, poolRest, reqVars>>
    \/ \E p \in Procs : GocCreate(p) /\ UNCHANGED <<bucketVars, poolRest, reqVars>>
    \/ \E p \in Procs : LaGot(p) /\ UNCHANGED <<bucketVars, poolRest, reqVars>>
    \/ \E p \in Procs : BaBody(p) /\ UNCHANGED <<bucketVars, poolRest, reqVars>>
    \/ \E p \in Procs : RateLimitRefuse(p) /\ UNCHANGED <<bucketVars, poolRest, reqVars>>
    \/ \E p \in Procs : RateLimitPass(p) /\ UNCHANGED <<bucketVars, poolRest, reqVars>>
    \/ \E p \in Procs : RateLimitDone(p) /\ UNCHANGED <<bucketVars, poolRest>>

SpecAddr == AddrSpecInit /\ [][AddrSpecNext]_vars

\* ================================================================ claims

InAllow(g) == bpc[g] # "idle"

Successes == Cardinality({k \in 1..Len(calls) : calls[k].ok})

\* C1: in every reachable state of a Bucket under interleaved Allow calls and
\* passing time, 0 <= tokens <= capacity.
C1_TokensInRange ==
    /\ 0 <= bucket.tokens
    /\ bucket.tokens <= bucket.capacity

\* a refill that had more to credit than fits has just been clamped
C1_Witness ==
    /\ idleDur > 0
    /\ idleTokens + (idleDur * bucket.refillRate) \div TicksPerSecond > bucket.capacity
    /\ bucket.tokens = bucket.capacity
    /\ \E g \in Goroutines : bpc[g] = "check"

\* C2: on a fresh Bucket with no time observed between the calls, the k-th
\* Allow returns true exactly when k <= capacity: the first capacity calls
\* succeed and the next one fails.
C2_FreshBurst ==
    idleDur = 0 =>
        \A k \in 1..Len(calls) : calls[k].ok = (k <= bucket.capacity)

\* capacity calls succeeded on the fresh bucket and one more was refused
C2_Witness ==
    /\ idleDur = 0
    /\ Len(calls) = bucket.capacity + 1
    /\ ~calls[Len(calls)].ok

\* C3: after the Bucket was drained to 0 and not touched for dt, the Allow
\* calls that follow without time passing succeed exactly
\* min(capacity, floor(dt * refillRate)) times: the k-th succeeds iff k is at
\* most that number (the refill is applied before the take).
C3_RefillAfterDrain ==
    (idleDur > 0 /\ idleTokens = 0) =>
        \A k \in 1..Len(calls) :
            calls[k].ok =
                (k <= Min(bucket.capacity,
                          (idleDur * bucket.refillRate) \div TicksPerSecond))

\* drained, then exactly one token became due: the first Allow took it, the
\* second was refused
C3_Witness ==
    /\ idleTokens = 0
    /\ idleDur > 0
    /\ idleDur * bucket.refillRate = TicksPerSecond
    /\ Len(calls) = 2
    /\ calls[1].ok
    /\ ~calls[2].ok

\* C4: Allow calls of several goroutines on one Bucket are serialized by the
\* mutex: at most one goroutine is between Lock and Unlock, of the calls made
\* on a bucket holding c tokens with no refill in between exactly
\* min(calls, c) succeeded, and tokens is never negative.
C4_Serialized ==
    /\ Cardinality({g \in Goroutines : InAllow(g)}) <= 1
    /\ Successes = Min(Len(calls), burstTokens)
    /\ bucket.tokens >= 0

\* two goroutines competed for the tokens of one burst and there were more
\* calls than tokens
C4_Witness ==
    /\ burstTokens >= 1
    /\ Len(calls) > burstTokens
    /\ \E j, k \in 1..Len(calls) : calls[j].g # calls[k].g /\ calls[j].ok /\ ~calls[k].ok


\* the backends whose flag is set
Live == {b \in Backends : alive[b]}

\* C5 as stated: at the step by which GetNextPeer returns a Backend, that
\* Backend's Alive flag is true, whatever the health checker and the error
\* handlers of other requests do meanwhile.
C5_AliveAtReturn ==
    [][\A p \in Procs :
          (pc[p] = "gnp_store" /\ pc'[p] = "gnp_ret") => alive'[peer'[p]]]_vars

\* C5 amended: GetNextPeer returns only the Backend whose Alive flag it read
\* as true in that call; the flag is not looked at again before the return.
C5_ObservedAlive ==
    [][\A p \in Procs :
          /\ (pc[p] = "gnp_scan" /\ pc'[p] = "gnp_store") => alive[NextIdx(p)]
          /\ (pc[p] = "gnp_store" /\ pc'[p] = "gnp_ret") => peer'[p] = NextIdx(p)
          /\ (pc'[p] = "gnp_ret" /\ pc[p] # "gnp_ret" /\ pc[p] # "gnp_store")
                => peer'[p] = Nil]_vars

\* a call has read the flag of the backend it is about to return as true and
\* a concurrent SetAlive(false) has cleared it since
C5_Witness ==
    \E p \in Procs : pc[p] = "gnp_store" /\ ~alive[NextIdx(p)]

\* the first live index in cyclic order after cursor c
Dist(c, b) == (b - c - 1) % n
NextLive(c) == CHOOSE b \in Live : \A b2 \in Live : Dist(c, b) <= Dist(c, b2)

Count(x, a, b) == Cardinality({k \in a..b : picks[k] = x})

\* C6: sequential GetNextPeer calls on a pool with fixed flags and a live
\* backend return the live backends in cyclic index order starting after the
\* cursor, never a dead one; over any window the selection counts of two live
\* backends differ by at most 1, and over a window of k * |L| calls each live
\* backend is selected exactly k times.
C6_RoundRobin ==
    Live # {} =>
        /\ \A k \in 1..Len(picks) :
              /\ picks[k] \in Live
              /\ picks[k] = NextLive(IF k = 1 THEN 0 ELSE picks[k - 1])
        /\ \A a \in 1..Len(picks) : \A b \in a..Len(picks) :
              /\ \A x, y \in Live : Count(x, a, b) - Count(y, a, b) <= 1
              /\ \A k \in 1..MaxPicks :
                    b - a + 1 = k * Cardinality(Live) =>
                        \A x \in Live : Count(x, a, b) = k
        /\ Cardinality(Live) = 1 =>
              \A k \in 1..Len(picks) : {picks[k]} = Live

\* six calls on a pool of three with the middle backend dead
C6_Witness ==
    /\ n = 3
    /\ alive[0] /\ ~alive[1] /\ alive[2]
    /\ picks = <<2, 0, 2, 0, 2, 0>>

\* C7: when the pool is empty or no backend is alive, GetNextPeer returns no
\* peer and leaves the cursor as it was at the call; on an empty pool it does
\* so without a single scan step.
C7_NoPeer ==
    \A p \in Procs :
        (pc[p] = "gnp_ret" /\ (n = 0 \/ Live = {})) =>
            /\ peer[p] = Nil
            /\ current = callCursor
            /\ n = 0 => i[p] = 0

\* a call on a pool of at least two backends, all dead, has scanned them all
\* and returned no peer
C7_Witness ==
    /\ n >= 2
    /\ pc[1] = "gnp_ret"
    /\ peer[1] = Nil
    /\ i[1] = n

\* a step of the handler of request p
RequestStep(p) ==
    \/ GnpLoad(p) \/ GnpScan(p) \/ GnpStore(p) \/ AfterTry(p)
    \/ Handoff(p) \/ Proxy(p) \/ ErrorHandler(p)

\* C8: a request makes at most len(pool) GetNextPeer tries and is never
\* stuck before its response; it ends with 503 only after exactly len(pool)
\* tries and without a hand-off, otherwise with one hand-off; and when no
\* backend was flagged alive at any moment of the request it ends with 503.
C8_BoundedTries ==
    \A p \in Procs :
        /\ tries[p] <= n
        /\ pc[p] \notin {"idle", "done"} => ENABLED RequestStep(p)
        /\ (pc[p] = "done" /\ status[p] = 503) => (tries[p] = n /\ handoffs[p] = 0)
        /\ (pc[p] = "done" /\ n > 0) => (status[p] = 503 \/ handoffs[p] = 1)
        /\ (pc[p] = "done" /\ n > 0 /\ ~everAlive[p]) => status[p] = 503

\* a request over two dead backends ended with 503 after two tries
C8_Witness ==
    \E p \in Procs :
        /\ n >= 2
        /\ pc[p] = "done"
        /\ status[p] = 503
        /\ tries[p] = n
        /\ ~everAlive[p]

\* C9: a request is handed to at most one backend; a 502 ends the request
\* after exactly one hand-off and no GetNextPeer try follows the hand-off.
C9_OnePeerPerRequest ==
    \A p \in Procs :
        /\ handoffs[p] <= 1
        /\ status[p] = 502 => (pc[p] = "done" /\ handoffs[p] = 1)
        /\ handoffs[p] = 1 =>
              (pc[p] \in {"proxy", "errh", "done"} /\ tries[p] = attempts[p] + 1)

\* a request got 502 from its one backend while another backend was flagged alive
C9_Witness ==
    \E p \in Procs :
        /\ pc[p] = "done"
        /\ status[p] = 502
        /\ handoffs[p] = 1
        /\ \E b \in Backends : b # peer[p] /\ alive[b]

\* C10: the error handler clears the Alive flag of its own backend iff the
\* request's retry count is zero, the retry count being the number of tries
\* that returned no peer; otherwise it leaves every flag as it is; in both
\* cases the client gets 502.
C10_DemoteOnFirstAttempt ==
    [][\A p \in Procs :
          (pc[p] = "errh" /\ pc'[p] # "errh") =>
              /\ status'[p] = 502
              /\ retry[p] = tries[p] - 1
              /\ retry[p] = 0 => alive' = [alive EXCEPT ![peer[p]] = FALSE]
              /\ retry[p] # 0 => alive' = alive]_vars

\* a request that found a peer only on its second try got 502 and its
\* backend is still flagged alive
C10_Witness ==
    \E p \in Procs :
        /\ pc[p] = "done"
        /\ status[p] = 502
        /\ retry[p] > 0
        /\ alive[peer[p]]


\* C11: with sequential requests between two probe cycles, a request is only
\* ever routed to a backend flagged alive, namely the next live one after the
\* cursor; a request whose backend turns out to be down gets 502 on its first
\* attempt and leaves that backend flagged not alive, so no later request is
\* routed to it.
C11_DemotedOnce ==
    /\ pc[1] \in {"proxy", "errh"} =>
          /\ alive[peer[1]]
          /\ peer[1] = NextLive(currentIdx[1])
    /\ (pc[1] = "done" /\ status[1] = 502) =>
          /\ retry[1] = 0
          /\ ~alive[peer[1]]
    /\ (pc[1] = "done" /\ status[1] = 200) => alive[peer[1]]

\* one of three backends was demoted by a 502 and a later request was served
\* by one of the two others
C11_Witness ==
    /\ n = 3
    /\ Cardinality(Live) = 2
    /\ pc[1] = "done"
    /\ status[1] = 200
    /\ \E b \in Backends : ~alive[b] /\ ~up[b]

\* C12: every failure response of the data plane (429, 502, 503, 500) has
\* a JSON body {code, message} whose code is the HTTP status, with
\* Content-Type application/json; charset=utf-8.
C12_UniformErrorBody ==
    \A p \in Procs :
        status[p] \in {429, 500, 502, 503} =>
            /\ resp[p].json
            /\ resp[p].code = status[p]
            /\ resp[p].ctype = JsonType

\* C13: when Limiter.Allow returns false the filter answers 429 and the
\* next handler is not invoked for the request (no GetNextPeer call, no
\* hand-off, cursor and flags untouched); when it returns true the next
\* handler is invoked, exactly once.
C13_FilterGates ==
    /\ [](\A p \in Procs :
            /\ status[p] = 429 =>
                  (pc[p] = "done" /\ served[p] = 0 /\ tries[p] = 0 /\ handoffs[p] = 0)
            /\ served[p] <= 1
            /\ (pc[p] = "done" /\ status[p] # 429) => served[p] = 1)
    /\ [][\A p \in Procs :
            /\ (pc[p] = "la_ret" /\ pc'[p] # "la_ret") =>
                  IF allowed[p]
                  THEN pc'[p] = "rl_pass" /\ status'[p] = 0 /\ served'[p] = 0
                  ELSE status'[p] = 429 /\ current' = current /\ alive' = alive
            /\ (pc[p] = "rl_pass" /\ pc'[p] # "rl_pass") => served'[p] = 1]_vars

C13_Witness ==
    /\ pc[1] = "done" /\ status[1] = 429
    /\ resp[1] = RespondWithError(429, "Rate limit exceeded")
    /\ \E b \in Backends : alive[b] /\ up[b]
    /\ current # 0

\* C14: GetOrCreateBucket returns the bucket that is in the map for the id,
\* the one already there when there is one, so concurrent missers all get
\* the single inserted bucket; an entry of the map changes only by the
\* reaper's delete, never by a second insert.
C14_SameBucket ==
    [][/\ \A c \in Clients :
            (buckets[c] # 0 /\ buckets'[c] # buckets[c]) =>
                (buckets'[c] = 0 /\ rpc = "decide" /\ rCur = c)
       /\ \A p \in Procs :
            (pc[p] \in {"goc_rlock", "goc_wlock", "goc_create"} /\ pc'[p] = "la_got") =>
                /\ bk'[p] # 0
                /\ bk'[p] = buckets'[client[p]]
                /\ buckets[client[p]] # 0 => bk'[p] = buckets[client[p]]]_vars

C14_Witness ==
    /\ cold[1] /\ cold[2]
    /\ client[1] = client[2]
    /\ pc[1] = "la_ret" /\ pc[2] = "la_ret"
    /\ bk[1] # 0 /\ bk[1] = bk[2] /\ buckets[client[1]] = bk[1]

\* C15: the bucket created on a cold miss has the provider's capacity and
\* rate exactly when there is a provider and its row for the client is found
\* with both values positive; otherwise it has the store's defaults.
C15_CustomOrDefault ==
    [][\A p \in Procs :
         (pc[p] = "goc_create" /\ pc'[p] = "la_got") =>
            /\ bk'[p] # 0
            /\ LET b == heap'[bk'[p]]
                   row == limits[client[p]]
               IN IF hasProvider /\ row.found /\ row.capacity > 0 /\ row.rate > 0
                  THEN b.capacity = row.capacity /\ b.refillRate = row.rate
                  ELSE b.capacity = defaultCapacity /\ b.refillRate = defaultRefillRate]_vars

C15_Witness ==
    /\ hasProvider
    /\ limits[1].found /\ limits[1].capacity > defaultCapacity /\ limits[1].rate > defaultRefillRate
    /\ pc[1] = "la_got" /\ cold[1]
    /\ buckets[1] = bk[1] /\ bk[1] # 0
    /\ heap[bk[1]].capacity = limits[1].capacity
    /\ heap[bk[1]].refillRate = limits[1].rate

\* C16 as stated: a Limiter.Allow call that began while its client had no
\* bucket returns true.
C16_ColdCallAllowed ==
    \A p \in Procs : (pc[p] = "la_ret" /\ cold[p]) => allowed[p]

\* C16: GetOrCreateBucket never returns nil, whatever the provider's row,
\* and the first Bucket.Allow to complete on a newly created bucket returns
\* true; a caller that missed concurrently with another one can find the
\* new bucket already drained.
C16_FirstTakeAllowed ==
    [][\A p \in Procs :
         /\ pc'[p] = "la_got" => bk'[p] # 0
         /\ (pc[p] = "ba_body" /\ pc'[p] = "la_ret" /\ bk[p] \in fresh) => allowed'[p]]_vars

C16_Witness ==
    /\ hasProvider
    /\ limits[1].found /\ limits[1].capacity = 0
    /\ now > InactivityThreshold
    /\ pc[1] = "la_ret" /\ cold[1] /\ allowed[1]
    /\ heap[bk[1]].lastAccess = now
    /\ fresh = {}

\* a caller whose client has a bucket and that is about to take the read lock
HitWaiting(p) == pc[p] = "goc_rlock" /\ buckets[client[p]] # 0 /\ ~CanLock(smu)

\* C17: a GetOrCreateBucket hit is never blocked on the store lock while
\* another client's cold-miss GetLimit call or a reaper sweep is in progress.
C17_HitNeverWaits ==
    \A p \in Procs :
        HitWaiting(p) =>
            /\ ~\E q \in Procs : pc[q] = "goc_getlimit" /\ client[q] # client[p]
            /\ rpc \notin {"sweep", "decide"}

\* C18: a bucket leaves the map only in a reaper sweep, under the store's
\* write lock, and exactly when now - lastAccess > 2 * cleanupInterval for
\* the bucket's lastAccess at that moment; so no bucket with a successful
\* take within the last 2 * cleanupInterval is removed.
C18_EvictOnlyInactive ==
    [][/\ \A c \in Clients :
            (buckets[c] # 0 /\ buckets'[c] # buckets[c]) =>
                /\ rpc = "decide" /\ rCur = c /\ smu = Reaper
                /\ now - heap[buckets[c]].lastAccess > InactivityThreshold
       /\ (rpc = "decide" /\ rpc' = "sweep" /\ buckets'[rCur] # 0) =>
                now - heap[buckets[rCur]].lastAccess <= InactivityThreshold]_vars

\* C19: Limiter.Stop, once called, returns; when it has returned the cleanup
\* goroutine has exited and does not hold the store lock, no sweep step runs
\* and no bucket leaves the map any more; the goroutine exits only from its
\* select, never from inside a sweep.
C19_StopReturns ==
    /\ (spc = "waiting") ~> (spc = "returned")
    /\ [](spc = "returned" => (rpc = "exited" /\ smu # Reaper))
    /\ [][spc = "returned" =>
            /\ rpc' = rpc
            /\ \A c \in Clients : buckets[c] # 0 => buckets'[c] = buckets[c]]_vars
    /\ [][(rpc \in {"lock", "sweep", "decide"}) => (rpc' # "exited")]_vars

C19_Witness ==
    /\ spc = "returned"
    /\ rpc = "exited"
    /\ buckets[1] # 0
    /\ now > InactivityThreshold
    /\ pc[1] = "la_ret" /\ cold[1]

\* C20: once cancellation is signalled the health-check loop finishes the
\* probe cycle in progress and exits: it starts no further cycle.
C20_NoCycleAfterCancel ==
    [][shutdown => ~(hc # "join" /\ hc' = "join")]_vars

\* C21: HealthCheck enters its periodic loop only after a complete first
\* cycle; a cycle starts a probe for every backend and returns only when
\* all of them have finished; cycles never overlap; a probe's result is
\* that of its connection attempt, and with no other writer each flag
\* equals that result when the cycle returns.
C21_ProbeCycle ==
    /\ [](hc # "join" => \A b \in Backends : probe[b] = "none")
    /\ [][/\ (hc # "join" /\ hc' = "join") =>
               \A b \in Backends : probe[b] = "none" /\ probe'[b] = "dial"
          /\ (hc = "join" /\ hc' # "join") =>
               /\ hc' = "wait"
               /\ \A b \in Backends :
                     /\ probe[b] \in {"done_up", "done_down"}
                     /\ alive'[b] = (probe[b] = "done_up")
          /\ hc' = "wait" => hc \in {"join", "wait"}
          /\ \A b \in Backends :
               (probe[b] = "dial" /\ probe'[b] # "dial") =>
                   (probe'[b] = "set_up") = up[b]
          /\ \A b \in Backends :
               (probe[b] = "set_up" /\ probe'[b] # "set_up") =>
                   (probe'[b] = "done_up" /\ alive'[b])
          /\ \A b \in Backends :
               (probe[b] = "set_down" /\ probe'[b] # "set_down") =>
                   (probe'[b] = "done_down" /\ ~alive'[b])]_vars

C21_Witness ==
    /\ hc = "wait"
    /\ n = MaxBackends
    /\ alive[0] /\ ~alive[1]
    /\ ~up[0]

RECURSIVE Expected(_, _)
Expected(h, c) ==
    IF h = <<>> THEN NoLimit
    ELSE LET e == h[Len(h)]
         IN IF e.id # c THEN Expected(SubSeq(h, 1, Len(h) - 1), c)
            ELSE IF e.op = "set"
                 THEN [found |-> TRUE, capacity |-> e.capacity, rate |-> e.rate]
                 ELSE NoLimit

AdminRequest(p) ==
    /\ Len(req[p].path) >= 3
    /\ req[p].path[1] = "admin"
    /\ req[p].path[2] = "limits"

\* the request handler p is serving is for the load-balancing path
BalancerRequest(p) ==
    /\ req[p] # NoRequest
    /\ ~AdminRequest(p)
    /\ req[p].path # <<"admin", "limits">>

\* C24: a request for the administration path is never inside Limiter.Allow
\* or the dispatcher, its steps leave every bucket and the bucket map as they
\* are, and it is never answered 429; with the limiter enabled a request for
\* the load-balancing path enters Limiter.Allow first and the dispatcher is
\* invoked only for a request the filter has let pass.
C24_OnlyBalancerGated ==
    /\ [](\A p \in Procs :
            AdminRequest(p) =>
                /\ pc[p] \in {"admin", "done"}
                /\ client[p] = 0 /\ bk[p] = 0
                /\ status[p] # 429
                /\ served[p] = 0)
    /\ [][\A p \in Procs :
            /\ (AdminRequest(p)' /\ pc'[p] # pc[p]) =>
                  (buckets' = buckets /\ heap' = heap /\ bmu' = bmu /\ smu' = smu)
            /\ (enabled /\ pc[p] = "idle" /\ BalancerRequest(p)') =>
                  (pc'[p] = "goc_rlock" /\ client'[p] # 0)
            /\ (enabled /\ served'[p] > served[p]) =>
                  (BalancerRequest(p) /\ pc[p] = "rl_pass")]_vars

C24_Witness ==
    /\ enabled /\ hasProvider
    /\ BalancerRequest(1) /\ pc[1] = "done" /\ status[1] = 429
    /\ AdminRequest(2) /\ pc[2] = "done" /\ status[2] = 200
    /\ req[2].method = "POST"
    /\ limits[1].found
    /\ buckets[1] # 0 /\ heap[buckets[1]].tokens = 0
    /\ heap[buckets[1]].capacity = defaultCapacity

\* s without its enclosing brackets when it starts with "[" and ends with "]"
Unbracket(s) ==
    IF Len(s) >= 2 /\ s[1] = "[" /\ s[Len(s)] = "]" THEN SubSeq(s, 2, Len(s) - 1) ELSE s

\* a has a ":" at position k and none after it
LastColonAt(a, k) ==
    /\ k \in 1..Len(a)
    /\ a[k] = ":"
    /\ \A j \in (k + 1)..Len(a) : a[j] # ":"

\* C25 as stated: an address without ":" yields the whole string
C25_NoColonWhole ==
    \A p \in Procs :
        (pc[p] # "idle" /\ \A k \in 1..Len(remote[p]) : remote[p][k] # ":") =>
            ip[p] = remote[p]

\* C25, amended: the client id derived from a remote address is the part before its
\* last ":" (the whole address when it has no ":"), without the enclosing
\* brackets when that part starts with "[" and ends with "]"; so a bracketed
\* address with a ":" inside and no port keeps its opening bracket, two
\* addresses that differ only after their last ":" yield the same id, and
\* calls with the same id get the same bucket.
C25_ClientId ==
    \A p \in Procs :
        pc[p] # "idle" =>
            /\ (\A k \in 1..Len(remote[p]) : remote[p][k] # ":") =>
                  /\ ip[p] = Unbracket(remote[p])
                  /\ (~HasPrefix(remote[p], "[") \/ ~HasSuffix(remote[p], "]")) =>
                        ip[p] = remote[p]
            /\ \A k \in 1..Len(remote[p]) :
                  LastColonAt(remote[p], k) =>
                      ip[p] = Unbracket(SubSeq(remote[p], 1, k - 1))
            /\ \A q \in Procs, k \in 1..Len(remote[p]) :
                  (/\ pc[q] # "idle"
                   /\ LastColonAt(remote[p], k) /\ LastColonAt(remote[q], k)
                   /\ SubSeq(remote[p], 1, k) = SubSeq(remote[q], 1, k)) =>
                      /\ ip[p] = ip[q]
                      /\ (bk[p] # 0 /\ bk[q] # 0) => bk[p] = bk[q]
            /\ client[p] # 0 => IdOf[client[p]] = ip[p]

C25_Witness ==
    /\ remote[1] = <<"[", ":", "1", "]", ":", "1">>
    /\ remote[2] = <<"[", ":", "1", "]", ":", "1", "1">>
    /\ ip[1] = <<":", "1">> /\ ip[2] = ip[1]
    /\ pc[1] = "la_got" /\ pc[2] = "la_got"
    /\ bk[1] # 0 /\ bk[1] = bk[2]

\* C26: no elapsed time is lost by a refill: a call is refused only while
\* less than 1/refillRate seconds lie between the bucket's last successful
\* take (no token was credited before that take and taken after it) and the
\* refill of the call, whatever calls were made in between.
C26_NoProgressLost ==
    \A g \in Goroutines :
        (bpc[g] = "check" /\ ~HasToken(bucket)) =>
            (bucket.lastRefill - bucket.lastAccess) * bucket.refillRate < TicksPerSecond

\* C27: a refused Allow call leaves tokens (at 0) and lastAccess as they
\* were before the call: its refill adds nothing and its check changes
\* nothing; lastAccess changes only in the take of a call that returns
\* true; lastRefill never decreases.
C27_RefusedCallFrame ==
    [][/\ bucket'.lastRefill >= bucket.lastRefill
       /\ bucket'.lastAccess # bucket.lastAccess =>
             \E g \in Goroutines :
                 /\ bpc[g] = "take" /\ bpc'[g] = "unlock"
                 /\ mu = g
                 /\ calls[Len(calls)] = [g |-> g, ok |-> TRUE]
       /\ \A g \in Goroutines :
             /\ (bpc[g] = "refill" /\ bpc'[g] = "check" /\ ~HasToken(bucket')) =>
                   /\ bucket'.tokens = 0 /\ bucket.tokens = 0
                   /\ bucket'.lastAccess = bucket.lastAccess
             /\ (bpc[g] = "check" /\ bpc'[g] = "unlock") =>
                   /\ bucket' = bucket /\ bucket.tokens = 0
                   /\ calls'[Len(calls')] = [g |-> g, ok |-> FALSE]
             /\ (bpc[g] = "unlock" /\ bpc'[g] = "idle") => bucket' = bucket
             /\ (bucket' # bucket) => (mu = 0 \/ bpc'[mu] # bpc[mu])]_vars

C27_Witness ==
    /\ \E g \in Goroutines : bpc[g] = "unlock" /\ mu = g
    /\ calls # <<>> /\ ~calls[Len(calls)].ok
    /\ bucket.tokens = 0
    /\ bucket.lastRefill > bucket.lastAccess
    /\ bucket.lastAccess > 0

\* C28: the reaper removes a bucket only when no Allow call, admitted or
\* refused, was made on it within the inactivity threshold; every Allow
\* call refills, so lastRefill is the time of the last call on the bucket.
\* Sweeps whose read of lastAccess is out of date at the decision are left
\* aside.
C28_EvictOnlyUncalled ==
    [][(/\ rpc = "decide" /\ buckets[rCur] # 0 /\ buckets'[rCur] = 0
        /\ rLast = heap[buckets[rCur]].lastAccess
        /\ \A p \in Procs : bk[p] # buckets[rCur]) =>
          now - heap[buckets[rCur]].lastRefill > InactivityThreshold]_vars

\* C29: whatever the interleaving of GetNextPeer calls, the cursor of a
\* non-empty pool is an index of the pool and is written only with the index
\* of the backend a call returns; a call returns a backend only after reading
\* its flag as true, and returns no peer only after n scan steps that each
\* read the flag of a different backend as false.
C29_RacingCalls ==
    /\ [](n > 0 =>
            /\ current \in 0..(n - 1)
            /\ \A p \in Procs :
                  /\ peer[p] # Nil => peer[p] \in 0..(n - 1)
                  /\ pc[p] \in {"gnp_scan", "gnp_store"} =>
                        /\ i[p] < n
                        /\ {(currentIdx[p] + 1 + k) % n : k \in 0..(n - 1)} = 0..(n - 1))
    /\ [][\A p \in Procs :
            /\ current' # current =>
                  \E q \in Procs :
                      /\ pc[q] = "gnp_store" /\ pc'[q] = "gnp_ret"
                      /\ current' = peer'[q]
            /\ (pc[p] = "gnp_scan" /\ pc'[p] = "gnp_store") =>
                  (alive[(currentIdx[p] + 1 + i[p]) % n] /\ i'[p] = i[p])
            /\ (pc[p] = "gnp_store" /\ pc'[p] = "gnp_ret") =>
                  peer'[p] = (currentIdx[p] + 1 + i[p]) % n
            /\ (pc[p] = "gnp_scan" /\ i'[p] # i[p]) =>
                  (i'[p] = i[p] + 1 /\ ~alive[(currentIdx[p] + 1 + i[p]) % n])
            /\ (n > 0 /\ pc[p] # "gnp_ret" /\ pc'[p] = "gnp_ret" /\ peer'[p] = Nil) =>
                  (pc[p] = "gnp_scan" /\ i'[p] = n /\ current' = current)]_vars

\* two calls loaded the same cursor and both resolved the same backend: the
\* second store repeats the first
C29_Witness ==
    /\ n = MaxBackends
    /\ \A b \in Backends : alive[b]
    /\ pc[1] = "gnp_ret" /\ pc[2] = "gnp_store"
    /\ currentIdx[1] = currentIdx[2]
    /\ peer[1] = NextIdx(2)
    /\ current = peer[1]

\* no backend is flagged alive, no GetNextPeer call has resolved a backend,
\* no request is with a backend and no answer other than 503 was written
NoPeerYet ==
    /\ \A b \in Backends : ~alive[b]
    /\ \A p \in Procs :
          /\ peer[p] = Nil
          /\ pc[p] \notin {"gnp_store", "proxy", "errh"}
          /\ status[p] \in {0, 503}
          /\ handoffs[p] = 0
          /\ pc[p] = "done" => status[p] = 503

\* C30: a pool with backends starts with every flag false; that state of
\* affairs (all flags false, every GetNextPeer call returning no peer, every
\* request answered 503) ends only by the SetAlive(true) of a probe whose
\* dial succeeded; and a flag goes from false to true only by such a step.
C30_DeadUntilProbed ==
    /\ [][/\ (n > 0 /\ NoPeerYet /\ ~NoPeerYet') =>
              \E b \in Backends :
                  probe[b] = "set_up" /\ probe'[b] = "done_up" /\ alive'[b]
          /\ \A b \in Backends :
                /\ (alive'[b] /\ ~alive[b]) => (probe[b] = "set_up" /\ probe'[b] = "done_up")
                /\ (probe'[b] = "set_up" /\ probe[b] # "set_up") => (probe[b] = "dial" /\ up[b])
          /\ (hc = "start" /\ n > 0) => NoPeerYet]_vars

C30_Witness ==
    /\ n = MaxBackends
    /\ NoPeerYet
    /\ \A b \in Backends : up[b]
    /\ hc = "join" /\ probe[0] = "set_up"
    /\ pc[1] = "done" /\ status[1] = 503 /\ tries[1] = n
    /\ pc[2] = "gnp_scan" /\ i[2] = 1

\* C31: when the error handler demotes a backend, no probe of that backend
\* holds the result of a connection attempt that succeeded before the
\* demotion and is still to be written: SetAlive(true) follows such a result
\* unconditionally, so the flag would be raised again by a probe that did
\* not see the failure.
C31_NoStaleProbe ==
    [][\A p \in Procs :
          (pc[p] = "errh" /\ pc'[p] # "errh" /\ alive[peer[p]] /\ ~alive'[peer[p]]) =>
              probe[peer[p]] # "set_up"]_vars

\* a caller of Limiter.Allow stands before a lock that another task holds
CallerWaits(p) ==
    \/ pc[p] \in {"goc_rlock", "goc_wlock"} /\ ~CanLock(smu)
    \/ pc[p] = "la_got" /\ bk[p] # 0 /\ ~CanLock(bmu[bk[p]])

\* a caller inside Limiter.Allow that can take its next step
CallerRuns(p) ==
    /\ pc[p] \in {"goc_rlock", "goc_wlock", "goc_getlimit", "goc_create", "la_got", "ba_body"}
    /\ ~CallerWaits(p)

\* the reaper stands before the store lock or before every bucket mutex left
ReaperWaits ==
    \/ rpc = "lock" /\ ~CanLock(smu)
    \/ rpc = "sweep" /\ rTodo # {} /\ \A c \in rTodo : ~CanLock(bmu[buckets[c]])

ReaperRuns ==
    \/ rpc \in {"lock", "sweep", "decide"} /\ ~ReaperWaits
    \/ rpc = "wait" /\ stopChan

\* C32: the rate limiter is deadlock-free. While any task of the limiter waits
\* (a caller for the store lock or a bucket mutex, the reaper for either, Stop
\* for the reaper) some task can take a step; a task holding a bucket mutex
\* is inside Bucket.Allow and neither holds nor goes for the store lock, and
\* the reaper takes bucket mutexes only under the store lock and keeps none;
\* every started Limiter.Allow call gets to its return.
C32_DeadlockFree ==
    /\ []((\/ \E p \in Procs : CallerWaits(p)
           \/ ReaperWaits
           \/ spc = "waiting") =>
          (\/ \E p \in Procs : CallerRuns(p)
           \/ ReaperRuns
           \/ spc = "waiting" /\ WgDone))
    /\ [](\A b \in BucketIds :
             /\ bmu[b] # Reaper
             /\ \A p \in Procs : bmu[b] = p => (pc[p] = "ba_body" /\ bk[p] = b /\ smu # p))
    /\ [][\A p \in Procs : (smu' = p /\ smu # p) => \A b \in BucketIds : bmu[b] # p]_vars
    /\ \A p \in Procs : (pc[p] # "idle") ~> (pc[p] = "la_ret")

\* one caller holds the bucket's mutex, the other waits for it, the reaper
\* holds the store lock and waits for the same mutex, Stop waits for the reaper
C32_Witness ==
    /\ pc[1] = "ba_body" /\ bmu[bk[1]] = 1
    /\ pc[2] = "la_got" /\ bk[2] = bk[1] /\ CallerWaits(2)
    /\ smu = Reaper /\ rpc = "sweep" /\ ReaperWaits
    /\ spc = "waiting"

\* C33: every bucket the reaper removes would be full after a refill at the
\* moment of its removal, so the full bucket created for the client's next
\* request admits nothing the removed one would have refused. Stated for
\* the plainest removal: the sweep's read of lastAccess is up to date, no
\* caller holds the bucket and no call was made on it since its last
\* admitted request.
C33_EvictedWouldBeFull ==
    [][(/\ rpc = "decide" /\ buckets[rCur] # 0 /\ buckets'[rCur] = 0
        /\ rLast = heap[buckets[rCur]].lastAccess
        /\ heap[buckets[rCur]].lastRefill = heap[buckets[rCur]].lastAccess
        /\ \A p \in Procs : bk[p] # buckets[rCur]) =>
          refill(heap[buckets[rCur]], now).tokens = heap[buckets[rCur]].capacity]_vars

\* C34: every decision of Bucket.Allow made for Limiter.Allow(id) is taken on
\* the bucket the store holds for id at that moment: the critical section of
\* Bucket.Allow never runs on a bucket that the reaper has removed from the
\* map or that a newer bucket of the same client has replaced. Stated for
\* calls that found the client's bucket in the map when they began.
C34_TakeOnStoredBucket ==
    [][\A p \in Procs :
          (pc[p] = "ba_body" /\ pc'[p] = "la_ret" /\ ~cold[p]) =>
              bk[p] = buckets[client[p]]]_vars

====
